---- MODULE Spec2Model ----
(***************************************************************************)
(* Ingestion pipeline of docker-forensics-v2: the Auth Gate (api/auth.py), *)
(* the file-backed Store (api/database.py) and the Ingest Service with its *)
(* in-memory upload sessions (api/server.py), and the Sender on the        *)
(* collecting host (utils/artifact_sender.py).                             *)
(*                                                                         *)
(* Every request is a coroutine on one asyncio event loop: code between    *)
(* two awaits is one atomic step, and each await (lock, aiofiles open,     *)
(* read, write, close) is a point where another coroutine may run.         *)
(***************************************************************************)
EXTENDS Integers, Sequences, FiniteSets, TLC

VARIABLES
    apiKeyEnv,        \* os.environ[FORENSICS_API_KEY]  (NoValue when unset)
    jwtSecretEnv,     \* os.environ[FORENSICS_JWT_SECRET] (NoValue when unset)
    now,              \* wall clock, in hours
    tokens,           \* the tokens generate_token has returned so far
    files,            \* artifacts/<id>.json for every id: the file's state
    indexFile,        \* index.json: the file's state
    lock,             \* Database.lock: 0 when free, else the holding task
    chunked_uploads,  \* server.py chunked_uploads: session id -> session
    nextId,           \* the next uuid4 the server draws for an artifact
    nextSid,          \* the next uuid4 the server draws for a session
    tasks,            \* the coroutines in flight, by task slot
    resp,             \* the response the last step sent, NoResponse if none
    sender,           \* the ArtifactSender instance and its call in progress
    pipeline,         \* df_v2.py run(): its position, its results and the file
                      \* save_to_local wrote
    events            \* what the Sender did so far: requests with their
                      \* answers, and backoff sleeps, in order

vars == <<apiKeyEnv, jwtSecretEnv, now, tokens, files, indexFile, lock,
          chunked_uploads, nextId, nextSid, tasks, resp, sender, pipeline,
          events>>

----------------------------------------------------------------------------
(* Bounds of the model *)

MaxTasks == 2        \* coroutines in flight at once
MaxArtifacts == 2    \* artifact ids the server draws in one run
MaxSessions == 1     \* upload sessions the server opens in one run
MaxChunks == 2       \* largest chunk number / declared total a client sends
MaxTokens == 2       \* tokens issued in one run
MaxTicks == 3        \* clock ticks in one run

(* Program constants *)

JWT_EXPIRATION_HOURS == 24
TickHours == 12

NoValue == "<unset>"
NonAsciiKey == "<non-ascii key>"      \* stands for any str with a char > 127
ApiKeys == {"", "k1", "k2", NonAsciiKey}  \* candidates a client may send
ConfiguredKeys == {"", "k1"}               \* values the variable may be set to
JwtSecrets == {"", "s1"}
RandomSecrets == {"rnd1", "rnd2"}     \* draws of secrets.token_urlsafe(32)
Garbage == [kind |-> "garbage"]       \* a bearer string that is no JWT

TaskIds == 1..MaxTasks

\* what send_artifacts returns: success, error and (where set) status_code
Result(success, error, status_code) ==
    [success |-> success, error |-> error, status_code |-> status_code]

NoResult == Result(FALSE, "<no result yet>", 0)

\* ArtifactSender.__init__ (artifact_sender.py 48-67): the configuration,
\* no token, and no call of send_artifacts in progress
ArtifactSender(api_key, retry_count, chunk_size) ==
    [api_key |-> api_key, retry_count |-> retry_count,
     chunk_size |-> chunk_size, jwt_token |-> NoValue,
     authorization |-> NoValue,
     pc |-> "idle", data |-> <<>>, attempt |-> 0, depth |-> 0,
     session_id |-> 0, i |-> 0, result |-> NoResult]

----------------------------------------------------------------------------
(* api/auth.py *)

get_api_key == apiKeyEnv

\* The values get_jwt_secret() may return: the configured secret, or a fresh
\* random one on every call when none is configured.
get_jwt_secret ==
    IF jwtSecretEnv = NoValue \/ jwtSecretEnv = ""
    THEN RandomSecrets
    ELSE {jwtSecretEnv}

\* secrets.compare_digest on two str: TypeError unless both are ASCII.
compare_digest(a, b) ==
    IF a = NonAsciiKey \/ b = NonAsciiKey THEN "TypeError"
    ELSE IF a = b THEN "True" ELSE "False"

verify_api_key(provided_key) ==
    LET expected_key == get_api_key IN
    IF expected_key = NoValue \/ expected_key = ""
    THEN "True"
    ELSE compare_digest(provided_key, expected_key)

generate_token(user_id, scope, secret) ==
    [kind |-> "jwt", user_id |-> user_id, exp |-> now + JWT_EXPIRATION_HOURS,
     iat |-> now, iss |-> "docker-forensics-api", scope |-> scope,
     key |-> secret]

NoPayload == [kind |-> "none"]

\* jwt.decode with the secret drawn for this call: signature, then expiry.
verify_token(token, secret) ==
    IF token.kind # "jwt" THEN NoPayload
    ELSE IF token.key # secret THEN NoPayload
    ELSE IF token.exp <= now THEN NoPayload
    ELSE [kind |-> "payload", user_id |-> token.user_id, exp |-> token.exp,
          scope |-> token.scope]

----------------------------------------------------------------------------
(* Bytes, base64 and JSON as server.py's finalize uses them.                *)
(* A byte string is a sequence of 0..255; a base64 string is a sequence of  *)
(* alphabet positions 0..63, with Pad for '='.                              *)

Pad == 64

\* base64.b64encode: 3 bytes -> 4 sextets, the tail padded with '='.
RECURSIVE b64encode(_)
b64encode(b) ==
    IF Len(b) = 0 THEN <<>>
    ELSE IF Len(b) = 1 THEN
        <<b[1] \div 4, (b[1] % 4) * 16, Pad, Pad>>
    ELSE IF Len(b) = 2 THEN
        <<b[1] \div 4, (b[1] % 4) * 16 + b[2] \div 16, (b[2] % 16) * 4, Pad>>
    ELSE
        <<b[1] \div 4, (b[1] % 4) * 16 + b[2] \div 16,
          (b[2] % 16) * 4 + b[3] \div 64, b[3] % 64>>
        \o b64encode(SubSeq(b, 4, Len(b)))

DecodeError == <<-1>>

\* base64.b64decode of a string over the alphabet: binascii.Error when the
\* length is no multiple of 4 (incorrect padding), else 4 sextets -> 3 bytes.
RECURSIVE b64decode(_)
b64decode(s) ==
    IF Len(s) = 0 THEN <<>>
    ELSE IF Len(s) < 4 THEN DecodeError
    ELSE
        LET c1 == s[1]  c2 == s[2]  c3 == s[3]  c4 == s[4]
            rest == b64decode(SubSeq(s, 5, Len(s)))
            head == IF c3 = Pad      THEN <<c1 * 4 + c2 \div 16>>
                    ELSE IF c4 = Pad THEN <<c1 * 4 + c2 \div 16,
                                            (c2 % 16) * 16 + c3 \div 4>>
                    ELSE <<c1 * 4 + c2 \div 16, (c2 % 16) * 16 + c3 \div 4,
                           (c3 % 4) * 64 + c4>>
        IN  IF rest = DecodeError THEN DecodeError
            ELSE IF (c3 = Pad \/ c4 = Pad) /\ Len(s) > 4 THEN head
            ELSE head \o rest

\* bytes.decode('utf-8') on the byte strings of the model: ASCII decodes to
\* itself, a lone byte above 127 raises UnicodeDecodeError.
utf8_decode(b) ==
    IF \E i \in 1..Len(b) : b[i] > 127 THEN DecodeError ELSE b

\* The JSON texts of the model, as UTF-8 bytes.
TextDocA == <<123,34,97,114,116,105,102,97,99,116,115,34,58,123,125,125>>  \* {"artifacts":{}}
TextDocB == <<123,34,97,114,116,105,102,97,99,116,115,34,58,91,93,125>>   \* {"artifacts":[]}
TextNoKey == <<123,125>>                                                  \* {}
TextDocC == <<123,34,97,114,116,105,102,97,99,116,115,34,58,123,34,97,34,58,49,125,125>>  \* {"artifacts":{"a":1}}

JsonError == [kind |-> "error"]

\* json.loads on the byte strings the model can produce: the texts above
\* parse, every other concatenation of their slices is no JSON text.
json_loads(text) ==
    IF text = TextDocA THEN [kind |-> "object", has_artifacts |-> TRUE, artifacts |-> "{}"]
    ELSE IF text = TextDocB THEN [kind |-> "object", has_artifacts |-> TRUE, artifacts |-> "[]"]
    ELSE IF text = TextNoKey THEN [kind |-> "object", has_artifacts |-> FALSE, artifacts |-> ""]
    ELSE IF text = TextDocC THEN [kind |-> "object", has_artifacts |-> TRUE, artifacts |-> "{a:1}"]
    ELSE JsonError

----------------------------------------------------------------------------
(* Values held by the Store (api/database.py) and the Ingest Service *)

NoDoc == [kind |-> "none"]
Absent == [kind |-> "absent"]      \* the file does not exist
Truncated == [kind |-> "empty"]    \* opened with 'w': length 0
HalfWritten == [kind |-> "partial"] \* part of the buffer flushed, not all
Whole(content) == [kind |-> "whole", content |-> content]

Containers == {"abc123", "def456"}
Metas == {[container_id |-> c, collection_timestamp |-> "2024-01-01T00:00:00",
           collection_host |-> "host1", artifact_count |-> 5,
           checksum |-> IF c = "abc123" THEN "X" ELSE "Y"] : c \in Containers}

\* The index is a JSON object; json and dict keep insertion order, so it is
\* the sequence of its entries in insertion order.
IndexPos(index, artifact_id) ==
    LET hits == {i \in 1..Len(index) : index[i].id = artifact_id}
    IN  IF hits = {} THEN 0 ELSE CHOOSE i \in hits : TRUE

InIndex(index, artifact_id) == IndexPos(index, artifact_id) # 0

\* index[artifact_id] = {...}: replaces in place, or appends a new key
IndexSet(index, entry) ==
    LET p == IndexPos(index, entry.id)
    IN  IF p = 0 THEN Append(index, entry)
        ELSE [index EXCEPT ![p] = entry]

\* delete_artifact 187-188 mutated: the entry is left in the index
IndexDelSkipped(index, artifact_id) == index

\* del index[artifact_id]
IndexDel(index, artifact_id) ==
    LET p == IndexPos(index, artifact_id)
    IN  SubSeq(index, 1, p - 1) \o SubSeq(index, p + 1, Len(index))

IndexSetStatusSkipped(index, artifact_id, status) == index

\* index[artifact_id]["status"] = status
IndexSetStatus(index, artifact_id, status) ==
    LET p == IndexPos(index, artifact_id)
    IN  [index EXCEPT ![p].status = status]

\* the entry store_artifact derives from the artifact
IndexEntry(artifact) ==
    [id |-> artifact.id, container_id |-> artifact.container_id,
     collection_timestamp |-> artifact.collection_timestamp,
     created_at |-> artifact.created_at, status |-> artifact.status]

ReadError == [kind |-> "raise"]

\* _load_index: {} when the file is missing or empty, the parsed object when
\* it is whole; a half-written file makes json.loads raise.
load_index(f) ==
    IF f.kind = "absent" \/ f.kind = "empty" THEN [kind |-> "ok", index |-> <<>>]
    ELSE IF f.kind = "partial" THEN ReadError
    ELSE [kind |-> "ok", index |-> f.content]

\* get_artifact's open + read + json.loads, once exists() said yes: a file
\* removed since makes open raise, an empty or half-written one json.loads.
read_artifact(f) ==
    IF f.kind = "whole" THEN [kind |-> "ok", doc |-> f.content]
    ELSE ReadError

\* list_artifacts 132-136 mutated: reverse=True is missing
RECURSIVE InsertAsc(_, _)
InsertAsc(sorted, e) ==
    IF Len(sorted) = 0 THEN <<e>>
    ELSE IF e.created_at < sorted[1].created_at THEN <<e>> \o sorted
    ELSE <<sorted[1]>> \o InsertAsc(Tail(sorted), e)

\* list_artifacts after _load_index: filter, stable sort by created_at
\* descending, paginate, summarise.
RECURSIVE InsertDesc(_, _)
InsertDesc(sorted, e) ==
    IF Len(sorted) = 0 THEN <<e>>
    ELSE IF e.created_at > sorted[1].created_at THEN <<e>> \o sorted
    ELSE <<sorted[1]>> \o InsertDesc(Tail(sorted), e)

RECURSIVE SortDesc(_)
SortDesc(items) ==
    IF Len(items) = 0 THEN <<>>
    ELSE InsertDesc(SortDesc(SubSeq(items, 1, Len(items) - 1)), items[Len(items)])

Filter(index, container_id) ==
    IF container_id = "" THEN index
    ELSE SelectSeq(index, LAMBDA e : e.container_id = container_id)

\* Python slice items[offset:offset+limit] for offset, limit >= 0
Slice(items, offset, limit) ==
    SubSeq(items, offset + 1, IF offset + limit > Len(items) THEN Len(items) ELSE offset + limit)

list_result(index, container_id, limit, offset) ==
    Slice(SortDesc(Filter(index, container_id)), offset, limit)

----------------------------------------------------------------------------
(* utils/artifact_serializer.py and df_v2.py: the collection pipeline.     *)
(* A str is the sequence of its code points.  A dict is the sequence of    *)
(* its (key, value) items in insertion order; the keys of an artifact      *)
(* document are str or int (what the collectors and yaml.safe_load of a    *)
(* compose file, plugin_artifacts.py 369, put in).  A JSON text is the     *)
(* sequence of the members of its object: key string and value.            *)

IntKey(n) == [type |-> "int", n |-> n, s |-> <<>>]
StrKey(s) == [type |-> "str", n |-> 0, s |-> s]

Item(key, value) == [key |-> key, value |-> value]

\* str(n) for an int n >= 0
RECURSIVE Digits(_)
Digits(n) ==
    IF n < 10 THEN <<48 + n>> ELSE Digits(n \div 10) \o <<48 + (n % 10)>>

\* json encoder: the member name written for a dict key
json_key(k) == IF k.type = "int" THEN Digits(k.n) ELSE k.s

\* a < b on two str: by code points
RECURSIVE LexLess(_, _)
LexLess(a, b) ==
    IF Len(a) = 0 THEN Len(b) > 0
    ELSE IF Len(b) = 0 THEN FALSE
    ELSE IF a[1] # b[1] THEN a[1] < b[1]
    ELSE LexLess(Tail(a), Tail(b))

\* j < k on two dict keys of one type, as sorted(dct.items()) compares them
KeyLess(j, k) ==
    IF j.type = "int" THEN j.n < k.n ELSE LexLess(j.s, k.s)

\* sorted(dct.items()) raises TypeError when it has to compare an int with
\* a str
MixedKeys(d) ==
    \E i, j \in 1..Len(d) : d[i].key.type # d[j].key.type

RECURSIVE InsertItem(_, _)
InsertItem(sorted, item) ==
    IF Len(sorted) = 0 THEN <<item>>
    ELSE IF KeyLess(item.key, sorted[1].key) THEN <<item>> \o sorted
    ELSE <<sorted[1]>> \o InsertItem(Tail(sorted), item)

RECURSIVE SortItems(_)
SortItems(d) ==
    IF Len(d) = 0 THEN <<>>
    ELSE InsertItem(SortItems(SubSeq(d, 1, Len(d) - 1)), d[Len(d)])

Members(d) ==
    [i \in 1..Len(d) |-> Item(json_key(d[i].key), d[i].value)]

TypeError == [kind |-> "raise", exc |-> "TypeError"]

\* json.dumps(d, sort_keys=..., default=str)
json_dumps(d, sort_keys) ==
    IF ~sort_keys THEN [kind |-> "text", members |-> Members(d)]
    ELSE IF MixedKeys(d) THEN TypeError
    ELSE [kind |-> "text", members |-> Members(SortItems(d))]

DictPos(d, key) ==
    LET hits == {i \in 1..Len(d) : d[i].key = key}
    IN  IF hits = {} THEN 0 ELSE CHOOSE i \in hits : TRUE

\* d[key] = value
DictSet(d, key, value) ==
    LET p == DictPos(d, key) IN
    IF p = 0 THEN Append(d, Item(key, value))
    ELSE [d EXCEPT ![p] = Item(key, value)]

\* json.load / json.loads: every key is a str, a repeated name keeps the
\* last value
RECURSIVE LoadMembers(_)
LoadMembers(members) ==
    IF Len(members) = 0 THEN <<>>
    ELSE LET last == members[Len(members)] IN
         DictSet(LoadMembers(SubSeq(members, 1, Len(members) - 1)),
                 StrKey(last.key), last.value)

json_load(text) == LoadMembers(text.members)

\* hashlib.sha256(json_str.encode()).hexdigest(): equal for equal texts
\* only
sha256(json_str) == [sha256 |-> json_str]

NoEnvelope == [kind |-> "none"]

\* serialize_artifacts 53-86.  The metadata (str keys, the same at
\* serialization and after loading) is left out of the checksummed text.
serialize_artifacts(artifacts) ==
    LET json_str == json_dumps(artifacts, TRUE) IN
    IF json_str.kind = "raise" THEN TypeError
    ELSE [kind |-> "envelope", checksum |-> sha256(json_str), artifacts |-> artifacts]

\* gzip.open(filepath, 'wt') / gzip.open(filepath, 'rt')
gzip_write(text) == [gz |-> TRUE, text |-> text]
gzip_read(stored) == stored.text

\* save_to_local 114-121: json.dump(serialized_data, f, indent=2, default=str),
\* to forensics_<id>_<timestamp>.json or .json.gz
file_written(compression, serialized_data) ==
    LET text == [checksum |-> serialized_data.checksum,
                 artifacts |-> json_dumps(serialized_data.artifacts, FALSE)]
    IN  IF compression THEN gzip_write(text) ELSE [gz |-> FALSE, text |-> text]

NoLoad == [kind |-> "none"]

\* load_from_local 202-225: json.load, then the checksum of the loaded data
\* without metadata.checksum
load_from_local(stored) ==
    LET text == IF stored.gz THEN gzip_read(stored) ELSE stored.text
        data == json_load(text.artifacts)
        data_copy == json_load(json_dumps(data, FALSE))
        json_str == json_dumps(data_copy, TRUE)
    IN  [kind |-> "loaded", stored_checksum |-> text.checksum,
         calculated_checksum |-> sha256(json_str), artifacts |-> data]

\* json.dumps(serialized_data).encode('utf-8') (artifact_sender.py 134-135)
\* for values that are str: {"key":"value",...}
RECURSIVE MembersBytes(_)
MembersBytes(members) ==
    IF Len(members) = 0 THEN <<>>
    ELSE (IF Len(members) > 1
          THEN MembersBytes(SubSeq(members, 1, Len(members) - 1)) \o <<44>>
          ELSE <<>>)
         \o <<34>> \o members[Len(members)].key \o <<34, 58, 34>>
         \o members[Len(members)].value \o <<34>>

EnvelopeBytes(serialized_data) ==
    <<123>> \o MembersBytes(json_dumps(serialized_data.artifacts, FALSE).members) \o <<125>>

NoAnswer == [exc |-> "<no request>", status_code |-> 0, access_token |-> FALSE]

\* DockerForensicsV2 in run() after collect_all_artifacts (225-232): the
\* document, the two switches, local_storage.compression, and results
DockerForensicsV2(artifacts, save_local, send_api, compression) ==
    [pc |-> "collected", artifacts |-> artifacts, save_local |-> save_local,
     send_api |-> send_api, compression |-> compression, file |-> Absent,
     local_path |-> FALSE, local_save_error |-> "", health |-> NoAnswer,
     serialized |-> NoEnvelope, api_result |-> NoResult, api_send_error |-> "",
     loaded |-> NoLoad]

\* no run of df_v2.py
NoPipeline == [DockerForensicsV2(<<>>, FALSE, FALSE, FALSE) EXCEPT !.pc = "off"]

----------------------------------------------------------------------------
(* Coroutines.  A task slot holds one request (or one direct call of a     *)
(* Database method) from its first statement to its last, the background   *)
(* task FastAPI runs after the response included.                          *)
(*   op: the handler ("db" for a direct Database call), m: the Database    *)
(*   method it is in, pc: the await it is suspended at.                    *)

NoQuery == [container_id |-> "", limit |-> 0, offset |-> 0]
NoBody == [kind |-> "none"]

Idle == [op |-> "idle", m |-> "", pc |-> "", payload |-> NoPayload, id |-> 0,
         sid |-> 0, doc |-> NoDoc, idx |-> <<>>, status |-> "", err |-> "",
         q |-> NoQuery]

Response(tk, code, body) ==
    [ep |-> tk.op, m |-> tk.m, code |-> code, payload |-> tk.payload,
     id |-> tk.id, sid |-> tk.sid, body |-> body]

NoResponse == Response(Idle, 0, NoBody)

\* process_artifact mutated: "processing" (384) is left out
process_artifact_unannounced(tk) ==
    [Idle EXCEPT !.op = "bg", !.m = "update", !.pc = "lock", !.id = tk.id,
                 !.payload = tk.payload, !.status = "processed"]

\* process_artifact(artifact_id, artifact_doc), entered at its first
\* update_artifact_status(artifact_id, "processing")
process_artifact(tk) ==
    [Idle EXCEPT !.op = "bg", !.m = "update", !.pc = "lock", !.id = tk.id,
                 !.payload = tk.payload, !.status = "processing"]

\* finalize mutated: the session is dropped whatever store_artifact did
forget_session_always(session_id, done) ==
    [s \in DOMAIN chunked_uploads \ {session_id} |-> chunked_uploads[s]]

\* finalize 358-361: del chunked_uploads[session_id] is reached only when
\* store_artifact returned
forget_session(session_id, done) ==
    IF done
    THEN [s \in DOMAIN chunked_uploads \ {session_id} |-> chunked_uploads[s]]
    ELSE chunked_uploads

\* What follows the return of the Database method task t is in.
\* outcome: "ok", "false" (None / False returned) or "raise".
Finish(t, outcome, body) ==
    LET tk == tasks[t]
        code == IF outcome = "ok" THEN 200 ELSE IF outcome = "false" THEN 404 ELSE 500
    IN
    CASE tk.op = "create" ->
            \* server.py 182-198
            /\ resp' = Response(tk, code, IF outcome = "ok"
                                          THEN [kind |-> "status", status |-> "received"]
                                          ELSE NoBody)
            /\ tasks' = [tasks EXCEPT ![t] = IF outcome = "ok" THEN process_artifact(tk) ELSE Idle]
            /\ UNCHANGED chunked_uploads
      [] tk.op = "finalize" ->
            \* server.py 358-376: del chunked_uploads[session_id] raises
            \* KeyError when another finalize removed the session meanwhile
            LET done == outcome = "ok" /\ tk.sid \in DOMAIN chunked_uploads IN
            /\ resp' = Response(tk, IF done THEN 200 ELSE 500,
                                IF done THEN [kind |-> "status", status |-> "received"]
                                ELSE NoBody)
            /\ chunked_uploads' = forget_session(tk.sid, done)
            /\ tasks' = [tasks EXCEPT ![t] = IF done THEN process_artifact(tk) ELSE Idle]
      [] tk.op = "bg" ->
            \* server.py 380-399: no response; "processing", then "processed",
            \* and "error" from the except branch.  The call in the except
            \* branch (399) is in no try: what it raises leaves
            \* process_artifact, recorded as the outcome 500 of "bg".
            /\ tasks' = [tasks EXCEPT ![t] =
                  IF outcome = "raise" /\ tk.status # "error"
                  THEN [tk EXCEPT !.pc = "lock", !.status = "error", !.err = "str(e)",
                                  !.doc = NoDoc, !.idx = <<>>]
                  ELSE IF outcome # "raise" /\ tk.status = "processing"
                  THEN [tk EXCEPT !.pc = "lock", !.status = "processed", !.doc = NoDoc, !.idx = <<>>]
                  ELSE Idle]
            /\ resp' = IF outcome = "raise" /\ tk.status = "error"
                       THEN Response(tk, 500, [kind |-> "raise"])
                       ELSE NoResponse
            /\ UNCHANGED <<chunked_uploads>>
      [] OTHER ->
            \* delete_artifact, get_artifact, list_artifacts handlers and
            \* direct calls: the result is the response
            /\ resp' = Response(tk, code, body)
            /\ tasks' = [tasks EXCEPT ![t] = Idle]
            /\ UNCHANGED chunked_uploads

Step(t, pc) == tasks' = [tasks EXCEPT ![t].pc = pc]

----------------------------------------------------------------------------
(* api/database.py, one action per await *)

CanAcquireUnlocked(t) == TRUE

\* asyncio.Lock: acquire() returns only while no task holds the lock
CanAcquire(t) == lock = 0

\* async with self.lock, and the synchronous statements behind it
Acquire(t) ==
    LET tk == tasks[t] IN
    /\ tk.pc = "lock"
    /\ CanAcquire(t)
    /\ CASE tk.m = "put" ->
              /\ lock' = t
              /\ Step(t, "f_open")
              /\ resp' = NoResponse
              /\ UNCHANGED <<files, chunked_uploads>>
         [] tk.m = "update" ->
              \* get_artifact: exists() is synchronous
              /\ lock' = t
              /\ Step(t, IF files[tk.id].kind = "absent" THEN "i_load" ELSE "u_read")
              /\ resp' = NoResponse
              /\ UNCHANGED <<files, chunked_uploads>>
         [] tk.m = "delete" ->
              \* exists() and unlink() are synchronous
              IF files[tk.id].kind # "absent"
              THEN /\ lock' = t
                   /\ files' = [files EXCEPT ![tk.id] = Absent]
                   /\ Step(t, "i_load")
                   /\ resp' = NoResponse
                   /\ UNCHANGED <<chunked_uploads>>
              ELSE /\ lock' = lock
                   /\ Finish(t, "false", NoBody)
                   /\ UNCHANGED files
    /\ UNCHANGED <<pipeline, sender, events, apiKeyEnv, jwtSecretEnv, now, tokens, indexFile, nextId, nextSid>>

\* update_artifact_status mutated: the artifact is written back without its
\* document
set_status_only(artifact, status, error) ==
    [artifact EXCEPT !.status = status, !.updated_at = now,
                     !.error = IF error # "" THEN error ELSE @,
                     !.artifacts = ""]

\* update_artifact_status 162-165: artifact["status"], artifact["updated_at"]
\* and, `if error:`, artifact["error"]
set_status(artifact, status, error) ==
    [artifact EXCEPT !.status = status, !.updated_at = now,
                     !.error = IF error # "" THEN error ELSE @]

\* update_artifact_status 161-165: get_artifact's open and read, then the
\* new status, updated_at and error
UpdateRead(t) ==
    LET tk == tasks[t]
        r == read_artifact(files[tk.id])
    IN
    /\ tk.pc = "u_read"
    /\ IF r.kind = "ok"
       THEN /\ tasks' = [tasks EXCEPT ![t].pc = "f_open",
                                      ![t].doc = set_status(r.doc, tk.status, tk.err)]
            /\ resp' = NoResponse
            /\ UNCHANGED <<lock, chunked_uploads>>
       ELSE /\ lock' = 0
            /\ Finish(t, "raise", NoBody)
    /\ UNCHANGED <<pipeline, sender, events, apiKeyEnv, jwtSecretEnv, now, tokens, files, indexFile, nextId, nextSid>>

\* aiofiles.open(artifact_file, 'w'): the file exists and is empty
FileOpen(t) ==
    /\ tasks[t].pc = "f_open"
    /\ files' = [files EXCEPT ![tasks[t].id] = Truncated]
    /\ Step(t, "f_write")
    /\ resp' = NoResponse
    /\ UNCHANGED <<pipeline, sender, events, apiKeyEnv, jwtSecretEnv, now, tokens, indexFile, lock,
                   chunked_uploads, nextId, nextSid>>

\* f.write(json.dumps(...)): the text sits in the buffer, or a first part of
\* a text larger than the buffer has reached the file
FileWrite(t) ==
    /\ tasks[t].pc = "f_write"
    /\ \E f \in {Truncated, HalfWritten} :
          files' = [files EXCEPT ![tasks[t].id] = f]
    /\ Step(t, "f_close")
    /\ resp' = NoResponse
    /\ UNCHANGED <<pipeline, sender, events, apiKeyEnv, jwtSecretEnv, now, tokens, indexFile, lock,
                   chunked_uploads, nextId, nextSid>>

\* leaving `async with aiofiles.open(...)`: flush and close
FileClose(t) ==
    /\ tasks[t].pc = "f_close"
    /\ files' = [files EXCEPT ![tasks[t].id] = Whole(tasks[t].doc)]
    /\ Step(t, "i_load")
    /\ resp' = NoResponse
    /\ UNCHANGED <<pipeline, sender, events, apiKeyEnv, jwtSecretEnv, now, tokens, indexFile, lock,
                   chunked_uploads, nextId, nextSid>>

\* _load_index under the lock, and what the method does to the loaded index
IndexLoad(t) ==
    LET tk == tasks[t]
        r == load_index(indexFile)
    IN
    /\ tk.pc = "i_load"
    /\ IF r.kind # "ok"
       THEN /\ lock' = 0
            /\ Finish(t, "raise", NoBody)
       ELSE IF tk.m = "put"
       THEN /\ tasks' = [tasks EXCEPT ![t].pc = "i_open",
                                      ![t].idx = IndexSet(r.index, IndexEntry(tk.doc))]
            /\ resp' = NoResponse
            /\ UNCHANGED <<lock, chunked_uploads>>
       ELSE IF InIndex(r.index, tk.id)
       THEN /\ tasks' = [tasks EXCEPT ![t].pc = "i_open",
                                      ![t].idx = IF tk.m = "update"
                                                 THEN IndexSetStatus(r.index, tk.id, tk.status)
                                                 ELSE IndexDel(r.index, tk.id)]
            /\ resp' = NoResponse
            /\ UNCHANGED <<lock, chunked_uploads>>
       ELSE /\ lock' = 0
            /\ Finish(t, "ok", NoBody)
    /\ UNCHANGED <<pipeline, sender, events, apiKeyEnv, jwtSecretEnv, now, tokens, files, indexFile, nextId, nextSid>>

\* _save_index: aiofiles.open(index_path, 'w')
IndexOpen(t) ==
    /\ tasks[t].pc = "i_open"
    /\ indexFile' = Truncated
    /\ Step(t, "i_write")
    /\ resp' = NoResponse
    /\ UNCHANGED <<pipeline, sender, events, apiKeyEnv, jwtSecretEnv, now, tokens, files, lock,
                   chunked_uploads, nextId, nextSid>>

\* _save_index: f.write(json.dumps(index, indent=2))
IndexWrite(t) ==
    /\ tasks[t].pc = "i_write"
    /\ \E f \in {Truncated, HalfWritten} : indexFile' = f
    /\ Step(t, "i_close")
    /\ resp' = NoResponse
    /\ UNCHANGED <<pipeline, sender, events, apiKeyEnv, jwtSecretEnv, now, tokens, files, lock,
                   chunked_uploads, nextId, nextSid>>

\* _save_index: close; the lock is released and the method returns
IndexClose(t) ==
    /\ tasks[t].pc = "i_close"
    /\ indexFile' = Whole(tasks[t].idx)
    /\ lock' = 0
    /\ Finish(t, "ok", NoBody)
    /\ UNCHANGED <<pipeline, sender, events, apiKeyEnv, jwtSecretEnv, now, tokens, files, nextId, nextSid>>

\* update_artifact_status called by process_artifact: an OSError from
\* aiofiles (open, read, write, flush at close) at the await the task is
\* suspended at.  `async with self.lock` releases the lock, the files stay
\* as the failed call left them, the exception goes to the caller.
IOError(t) ==
    /\ tasks[t].op = "bg"
    /\ tasks[t].pc \in {"u_read", "f_open", "f_write", "f_close",
                        "i_load", "i_open", "i_write", "i_close"}
    /\ lock' = 0
    /\ Finish(t, "raise", NoBody)
    /\ UNCHANGED <<pipeline, sender, events, apiKeyEnv, jwtSecretEnv, now, tokens, files, indexFile,
                   nextId, nextSid>>

\* get_artifact 112-116, taking no lock: open, read, json.loads
GetRead(t) ==
    LET r == read_artifact(files[tasks[t].id]) IN
    /\ tasks[t].pc = "g_read"
    /\ IF r.kind = "ok"
       THEN Finish(t, "ok", [kind |-> "doc", read |-> "whole", doc |-> r.doc])
       ELSE Finish(t, "raise", [kind |-> "raise", read |-> files[tasks[t].id].kind])
    /\ UNCHANGED <<pipeline, sender, events, apiKeyEnv, jwtSecretEnv, now, tokens, files, indexFile, lock,
                   nextId, nextSid>>

\* list_artifacts 121-153, taking no lock: _load_index, filter, sort, page
ListRead(t) ==
    LET tk == tasks[t]
        r == load_index(indexFile)
    IN
    /\ tk.pc = "l_read"
    /\ IF r.kind = "ok"
       THEN Finish(t, "ok", [kind |-> "list", read |-> indexFile.kind,
                             items |-> list_result(r.index, tk.q.container_id,
                                                   tk.q.limit, tk.q.offset)])
       ELSE Finish(t, "raise", [kind |-> "raise", read |-> indexFile.kind])
    /\ UNCHANGED <<pipeline, sender, events, apiKeyEnv, jwtSecretEnv, now, tokens, files, indexFile, lock,
                   nextId, nextSid>>

----------------------------------------------------------------------------
(* Direct calls of the Database methods (what the handlers and the         *)
(* background task call, here with every argument the methods accept)      *)

ArtifactIds == 1..MaxArtifacts

\* the lowest free task slot takes the next coroutine
FreeSlot(t) == tasks[t].op = "idle" /\ \A u \in 1..(t - 1) : tasks[u].op # "idle"

\* the artifact_doc both create_artifact (168-179) and finalize (343-355) build
ArtifactDoc(artifact_id, meta, user_id, document, upload_method) ==
    [kind |-> "doc", id |-> artifact_id, container_id |-> meta.container_id,
     collection_timestamp |-> meta.collection_timestamp,
     collection_host |-> meta.collection_host,
     artifact_count |-> meta.artifact_count, checksum |-> meta.checksum,
     created_at |-> now, created_by |-> user_id, status |-> "received",
     artifacts |-> document, upload_method |-> upload_method,
     updated_at |-> -1, error |-> ""]

CallStoreArtifact(t, artifact) ==
    /\ FreeSlot(t)
    /\ tasks' = [tasks EXCEPT ![t] = [Idle EXCEPT !.op = "db", !.m = "put", !.pc = "lock",
                                                  !.id = artifact.id, !.doc = artifact]]
    /\ resp' = NoResponse
    /\ UNCHANGED <<pipeline, sender, events, apiKeyEnv, jwtSecretEnv, now, tokens, files, indexFile,
                   lock, chunked_uploads, nextId, nextSid>>

CallUpdateStatus(t, artifact_id, status, error) ==
    /\ FreeSlot(t)
    /\ tasks' = [tasks EXCEPT ![t] = [Idle EXCEPT !.op = "db", !.m = "update", !.pc = "lock",
                                                  !.id = artifact_id, !.status = status,
                                                  !.err = error]]
    /\ resp' = NoResponse
    /\ UNCHANGED <<pipeline, sender, events, apiKeyEnv, jwtSecretEnv, now, tokens, files, indexFile,
                   lock, chunked_uploads, nextId, nextSid>>

CallDelete(t, artifact_id) ==
    /\ FreeSlot(t)
    /\ tasks' = [tasks EXCEPT ![t] = [Idle EXCEPT !.op = "db", !.m = "delete", !.pc = "lock",
                                                  !.id = artifact_id]]
    /\ resp' = NoResponse
    /\ UNCHANGED <<pipeline, sender, events, apiKeyEnv, jwtSecretEnv, now, tokens, files, indexFile,
                   lock, chunked_uploads, nextId, nextSid>>

\* get_artifact 109-110: exists() is synchronous, None at once if missing
CallGet(t, artifact_id) ==
    LET tk == [Idle EXCEPT !.op = "db", !.m = "get", !.pc = "g_read", !.id = artifact_id] IN
    /\ FreeSlot(t)
    /\ IF files[artifact_id].kind = "absent"
       THEN /\ resp' = Response(tk, 404, NoBody)
            /\ UNCHANGED tasks
       ELSE /\ tasks' = [tasks EXCEPT ![t] = tk]
            /\ resp' = NoResponse
    /\ UNCHANGED <<pipeline, sender, events, apiKeyEnv, jwtSecretEnv, now, tokens, files, indexFile, lock,
                   chunked_uploads, nextId, nextSid>>

CallList(t, q) ==
    /\ FreeSlot(t)
    /\ tasks' = [tasks EXCEPT ![t] = [Idle EXCEPT !.op = "db", !.m = "list", !.pc = "l_read",
                                                  !.q = q]]
    /\ resp' = NoResponse
    /\ UNCHANGED <<pipeline, sender, events, apiKeyEnv, jwtSecretEnv, now, tokens, files, indexFile,
                   lock, chunked_uploads, nextId, nextSid>>

Queries == {[container_id |-> "", limit |-> 100, offset |-> 0],
            [container_id |-> "abc123", limit |-> 1, offset |-> 1]}

\* a coroutine of store_artifact, update_artifact_status or delete_artifact
\* resumes at its next await
WriterStep(t) ==
    \/ Acquire(t)
    \/ UpdateRead(t)
    \/ FileOpen(t)
    \/ FileWrite(t)
    \/ FileClose(t)
    \/ IndexLoad(t)
    \/ IndexOpen(t)
    \/ IndexWrite(t)
    \/ IndexClose(t)

\* a coroutine of get_artifact or list_artifacts resumes at its read
ReaderStep(t) ==
    \/ GetRead(t)
    \/ ListRead(t)

StoreStep(t) ==
    \/ WriterStep(t)
    \/ ReaderStep(t)

InitStore ==
    /\ apiKeyEnv = "k1"
    /\ jwtSecretEnv = "s1"
    /\ now = 0
    /\ tokens = {}
    /\ files = [i \in ArtifactIds |-> Absent]
    /\ indexFile = Whole(<<>>)
    /\ lock = 0
    /\ chunked_uploads = <<>>
    /\ nextId = 1
    /\ nextSid = 1
    /\ tasks = [t \in TaskIds |-> Idle]
    /\ resp = NoResponse
    /\ sender = ArtifactSender("", 3, 10 * 1024 * 1024)
    /\ events = <<>>
    /\ pipeline = NoPipeline

NextStore ==
    \/ \E t \in TaskIds : StoreStep(t)
    \/ \E t \in TaskIds, i \in ArtifactIds, meta \in Metas :
          CallStoreArtifact(t, ArtifactDoc(i, meta, "forensics_user", "{}", ""))
    \/ \E t \in TaskIds, i \in ArtifactIds, st \in {"processing", "error"} :
          CallUpdateStatus(t, i, st, IF st = "error" THEN "str(e)" ELSE "")
    \/ \E t \in TaskIds, i \in ArtifactIds : CallDelete(t, i)
    \/ \E t \in TaskIds, i \in ArtifactIds : CallGet(t, i)
    \/ \E t \in TaskIds, q \in Queries : CallList(t, q)

SpecStore == InitStore /\ [][NextStore]_vars

\* list_artifacts alone, over every index of up to MaxListed artifacts: the
\* artifact at position k of the index was stored k-th, with any created_at
MaxListed == 3

ListEntries ==
    [id : 1..MaxListed, container_id : Containers,
     collection_timestamp : {"2024-01-01T00:00:00"},
     created_at : 1..MaxListed, status : {"received"}]

ListIndexes ==
    UNION {{idx \in [1..n -> ListEntries] : \A k \in 1..n : idx[k].id = k} :
           n \in 0..MaxListed}

ListQueries ==
    [container_id : {"", "abc123"}, limit : {0, 1, 2, 100}, offset : {0, 1, 3}]

\* the artifact file that goes with an index entry
StoredDoc(entry) ==
    [ArtifactDoc(entry.id,
                 CHOOSE meta \in Metas : meta.container_id = entry.container_id,
                 "forensics_user", "{}", "")
        EXCEPT !.created_at = entry.created_at]

InitList ==
    /\ apiKeyEnv = "k1"
    /\ jwtSecretEnv = "s1"
    /\ now = 0
    /\ tokens = {}
    /\ \E idx \in ListIndexes :
          /\ indexFile = Whole(idx)
          /\ files = [i \in 1..MaxListed |->
                         IF i <= Len(idx) THEN Whole(StoredDoc(idx[i])) ELSE Absent]
    /\ lock = 0
    /\ chunked_uploads = <<>>
    /\ nextId = 1
    /\ nextSid = 1
    /\ tasks = [t \in TaskIds |-> Idle]
    /\ resp = NoResponse
    /\ sender = ArtifactSender("", 3, 10 * 1024 * 1024)
    /\ events = <<>>
    /\ pipeline = NoPipeline

NextList ==
    \/ \E t \in TaskIds, q \in ListQueries : CallList(t, q)
    \/ \E t \in TaskIds : ListRead(t)

SpecList == InitList /\ [][NextList]_vars

----------------------------------------------------------------------------
(* api/server.py: the token gate and the endpoints *)

verify_jwt(token, secret) == verify_token(token, secret)

UnauthorizedNever(payload) == FALSE

\* verify_jwt 94-99: `if not payload: raise HTTPException(401)`
Unauthorized(payload) == payload.kind = "none"

\* token_payload.get("user_id", "unknown")
UserId(payload) == IF payload.kind = "payload" THEN payload.user_id ELSE "unknown"

Request(ep) == [Idle EXCEPT !.op = ep]

\* the 401 of verify_jwt: the handler body never runs
Reject(ep) ==
    /\ resp' = Response(Request(ep), 401, NoBody)
    /\ UNCHANGED <<pipeline, sender, events, apiKeyEnv, jwtSecretEnv, now, tokens, files, indexFile, lock,
                   chunked_uploads, nextId, nextSid, tasks>>

LoginScope == "artifacts:read artifacts:write"

\* login mutated: the subject differs from one login call to a later one
login_subject_per_call(api_key) ==
    IF now = 0 THEN "forensics_user" ELSE "forensics_user_2"

\* login 121: user_id="forensics_user", whatever the key
login_subject(api_key) == "forensics_user"

\* POST /api/v1/auth/login
Login(api_key) ==
    LET verdict == verify_api_key(api_key) IN
    /\ IF verdict = "True"
       THEN \E secret \in get_jwt_secret :
               LET token == generate_token(login_subject(api_key), LoginScope, secret) IN
               /\ Cardinality(tokens \cup {token}) <= MaxTokens
               /\ tokens' = tokens \cup {token}
               /\ resp' = Response(Request("login"), 200,
                                   [kind |-> "login", api_key |-> api_key, token |-> token])
       ELSE /\ tokens' = tokens
            \* False: HTTPException(401); TypeError: unhandled, a 500
            /\ resp' = Response(Request("login"), IF verdict = "False" THEN 401 ELSE 500,
                                [kind |-> "login", api_key |-> api_key, token |-> Garbage])
    /\ UNCHANGED <<pipeline, sender, events, apiKeyEnv, jwtSecretEnv, now, files, indexFile, lock,
                   chunked_uploads, nextId, nextSid, tasks>>

\* generate_token called for another subject by a holder of the signing key
IssueToken(user_id) ==
    /\ \E secret \in get_jwt_secret :
          LET token == generate_token(user_id, "", secret) IN
          /\ Cardinality(tokens \cup {token}) <= MaxTokens
          /\ tokens' = tokens \cup {token}
    /\ resp' = NoResponse
    /\ UNCHANGED <<pipeline, sender, events, apiKeyEnv, jwtSecretEnv, now, files, indexFile, lock,
                   chunked_uploads, nextId, nextSid, tasks>>

\* GET /api/v1/me
Me(token) ==
    \E secret \in get_jwt_secret :
        LET payload == verify_jwt(token, secret) IN
        /\ resp' = [Response(Request("me"), IF Unauthorized(payload) THEN 401 ELSE 200,
                             [kind |-> "me", token |-> token, at |-> now])
                    EXCEPT !.payload = payload]
        /\ UNCHANGED <<pipeline, sender, events, apiKeyEnv, jwtSecretEnv, now, tokens, files, indexFile, lock,
                       chunked_uploads, nextId, nextSid, tasks>>

\* GET /api/v1/health: no token; Database.health_check counts the files
Health ==
    /\ resp' = Response(Request("health"), 200,
                        [kind |-> "health",
                         artifact_count |-> Cardinality({i \in DOMAIN files : files[i].kind # "absent"})])
    /\ UNCHANGED <<pipeline, sender, events, apiKeyEnv, jwtSecretEnv, now, tokens, files, indexFile, lock,
                   chunked_uploads, nextId, nextSid, tasks>>

\* the clock advances
Tick ==
    /\ now + TickHours <= MaxTicks * TickHours
    /\ now' = now + TickHours
    /\ resp' = NoResponse
    /\ UNCHANGED <<pipeline, sender, events, apiKeyEnv, jwtSecretEnv, tokens, files, indexFile, lock,
                   chunked_uploads, nextId, nextSid, tasks>>

\* POST /api/v1/artifacts
CreateArtifact(t, token, meta, document) ==
    \E secret \in get_jwt_secret :
        LET payload == verify_jwt(token, secret) IN
        /\ FreeSlot(t)
        /\ IF Unauthorized(payload) THEN Reject("create")
           ELSE /\ nextId \in DOMAIN files
                /\ nextId' = nextId + 1
                /\ tasks' = [tasks EXCEPT ![t] =
                      [Idle EXCEPT !.op = "create", !.m = "put", !.pc = "lock",
                                   !.payload = payload, !.id = nextId,
                                   !.doc = ArtifactDoc(nextId, meta, UserId(payload), document, "")]]
                /\ resp' = NoResponse
                /\ UNCHANGED <<pipeline, sender, events, apiKeyEnv, jwtSecretEnv, now, tokens, files, indexFile,
                               lock, chunked_uploads, nextSid>>

\* GET /api/v1/artifacts/{artifact_id}
GetArtifact(t, token, artifact_id) ==
    \E secret \in get_jwt_secret :
        LET payload == verify_jwt(token, secret)
            tk == [Idle EXCEPT !.op = "get", !.m = "get", !.pc = "g_read",
                               !.payload = payload, !.id = artifact_id]
        IN
        /\ FreeSlot(t)
        /\ IF Unauthorized(payload) THEN Reject("get")
           ELSE /\ IF files[artifact_id].kind = "absent"
                   THEN resp' = Response(tk, 404, NoBody) /\ UNCHANGED tasks
                   ELSE resp' = NoResponse /\ tasks' = [tasks EXCEPT ![t] = tk]
                /\ UNCHANGED <<pipeline, sender, events, apiKeyEnv, jwtSecretEnv, now, tokens, files, indexFile,
                               lock, chunked_uploads, nextId, nextSid>>

\* GET /api/v1/artifacts
ListArtifacts(t, token, q) ==
    \E secret \in get_jwt_secret :
        LET payload == verify_jwt(token, secret) IN
        /\ FreeSlot(t)
        /\ IF Unauthorized(payload) THEN Reject("list")
           ELSE /\ tasks' = [tasks EXCEPT ![t] =
                      [Idle EXCEPT !.op = "list", !.m = "list", !.pc = "l_read",
                                   !.payload = payload, !.q = q]]
                /\ resp' = NoResponse
                /\ UNCHANGED <<pipeline, sender, events, apiKeyEnv, jwtSecretEnv, now, tokens, files, indexFile,
                               lock, chunked_uploads, nextId, nextSid>>

\* DELETE /api/v1/artifacts/{artifact_id}
DeleteArtifact(t, token, artifact_id) ==
    \E secret \in get_jwt_secret :
        LET payload == verify_jwt(token, secret) IN
        /\ FreeSlot(t)
        /\ IF Unauthorized(payload) THEN Reject("delete")
           ELSE /\ tasks' = [tasks EXCEPT ![t] =
                      [Idle EXCEPT !.op = "delete", !.m = "delete", !.pc = "lock",
                                   !.payload = payload, !.id = artifact_id]]
                /\ resp' = NoResponse
                /\ UNCHANGED <<pipeline, sender, events, apiKeyEnv, jwtSecretEnv, now, tokens, files, indexFile,
                               lock, chunked_uploads, nextId, nextSid>>

----------------------------------------------------------------------------
(* api/server.py: chunked upload.  session["received_chunks"] is a dict:   *)
(* the sequence of its (chunk_number, chunk_data) items in insertion order. *)

ChunkPos(received, number) ==
    LET hits == {i \in 1..Len(received) : received[i].number = number}
    IN  IF hits = {} THEN 0 ELSE CHOOSE i \in hits : TRUE

\* upload_chunk mutated: every accepted chunk is added to the ones held
ChunkAdd(received, number, data) ==
    Append(received, [number |-> number, data |-> data])

\* session["received_chunks"][chunk_number] = chunk_data
ChunkSet(received, number, data) ==
    LET p == ChunkPos(received, number)
        item == [number |-> number, data |-> data]
    IN  IF p = 0 THEN Append(received, item) ELSE [received EXCEPT ![p] = item]

Raise == [kind |-> "raise"]

RECURSIVE JoinInArrivalOrder(_)
JoinInArrivalOrder(received) ==
    IF Len(received) = 0 THEN <<>>
    ELSE b64decode(received[1].data) \o JoinInArrivalOrder(Tail(received))

reassemble_in_arrival_order(session) ==
    IF \E i \in 1..Len(session.received_chunks) :
          b64decode(session.received_chunks[i].data) = DecodeError
    THEN Raise
    ELSE [kind |-> "ok", data |-> JoinInArrivalOrder(session.received_chunks)]

RECURSIVE JoinFrom(_, _, _)
JoinFrom(received, i, total) ==
    IF i >= total THEN <<>>
    ELSE b64decode(received[ChunkPos(received, i)].data) \o JoinFrom(received, i + 1, total)

\* finalize 332-337: for i in range(total_chunks): b64decode(received_chunks[i]),
\* then b''.join; KeyError for a missing i, binascii.Error for bad base64
reassemble(session) ==
    LET received == session.received_chunks
        total == session.total_chunks
    IN
    IF \E i \in 0..(total - 1) : ChunkPos(received, i) = 0 THEN Raise
    ELSE IF \E i \in 0..(total - 1) :
               b64decode(received[ChunkPos(received, i)].data) = DecodeError THEN Raise
    ELSE [kind |-> "ok", data |-> JoinFrom(received, 0, total)]

\* finalize 337-353: decode('utf-8'), json.loads, artifact_data["artifacts"]
artifacts_of(session) ==
    LET r == reassemble(session) IN
    IF r.kind # "ok" THEN Raise
    ELSE LET reassembled_data == utf8_decode(r.data) IN
         IF reassembled_data = DecodeError THEN Raise
         ELSE LET artifact_data == json_loads(reassembled_data) IN
              IF artifact_data.kind # "object" \/ ~artifact_data.has_artifacts THEN Raise
              ELSE [kind |-> "ok", artifacts |-> artifact_data.artifacts]

\* POST /api/v1/artifacts/chunked/init; ChunkedUploadInit (models.py 67-70)
\* takes any int as total_chunks
InitChunked(token, meta, total_chunks) ==
    \E secret \in get_jwt_secret :
        LET payload == verify_jwt(token, secret)
            tk == [Request("init") EXCEPT !.payload = payload, !.sid = nextSid]
        IN
        IF Unauthorized(payload) THEN Reject("init")
        ELSE /\ nextSid <= MaxSessions
             /\ nextSid' = nextSid + 1
             /\ chunked_uploads' =
                   [s \in DOMAIN chunked_uploads \cup {nextSid} |->
                      IF s = nextSid
                      THEN [metadata |-> meta, total_chunks |-> total_chunks,
                            received_chunks |-> <<>>, created_at |-> now,
                            user_id |-> UserId(payload)]
                      ELSE chunked_uploads[s]]
             /\ resp' = Response(tk, 200, [kind |-> "init", total_chunks |-> total_chunks])
             /\ UNCHANGED <<pipeline, sender, events, apiKeyEnv, jwtSecretEnv, now, tokens, files, indexFile, lock,
                            nextId, tasks>>

OwnerAny(session, payload) == TRUE

CountMismatchNever(session) == FALSE

\* 292 / 320: session.get("user_id") != token_payload.get("user_id")
IsOwner(session, payload) ==
    session.user_id = (IF payload.kind = "payload" THEN payload.user_id ELSE "<None>")

\* POST /api/v1/artifacts/chunked/{session_id}/chunk
UploadChunk(token, session_id, chunk_number, chunk_data) ==
    \E secret \in get_jwt_secret :
        LET payload == verify_jwt(token, secret)
            tk == [Request("chunk") EXCEPT !.payload = payload, !.sid = session_id]
            body == [kind |-> "chunk", number |-> chunk_number, data |-> chunk_data]
        IN
        IF Unauthorized(payload) THEN Reject("chunk")
        ELSE /\ IF session_id \notin DOMAIN chunked_uploads
                THEN resp' = Response(tk, 404, body) /\ UNCHANGED chunked_uploads
                ELSE IF ~IsOwner(chunked_uploads[session_id], payload)
                THEN resp' = Response(tk, 403, body) /\ UNCHANGED chunked_uploads
                ELSE /\ chunked_uploads' =
                           [chunked_uploads EXCEPT ![session_id].received_chunks =
                               ChunkSet(@, chunk_number, chunk_data)]
                     /\ resp' = Response(tk, 200, body)
             /\ UNCHANGED <<pipeline, sender, events, apiKeyEnv, jwtSecretEnv, now, tokens, files, indexFile, lock,
                            nextId, nextSid, tasks>>

\* 324: len(session["received_chunks"]) != session["total_chunks"]
CountMismatch(session) == Len(session.received_chunks) # session.total_chunks

\* POST /api/v1/artifacts/chunked/{session_id}/finalize, up to the await of
\* db.store_artifact
Finalize(t, token, session_id) ==
    \E secret \in get_jwt_secret :
        LET payload == verify_jwt(token, secret)
            tk == [Request("finalize") EXCEPT !.payload = payload, !.sid = session_id]
        IN
        /\ FreeSlot(t)
        /\ IF Unauthorized(payload) THEN Reject("finalize")
           ELSE IF session_id \notin DOMAIN chunked_uploads
           THEN /\ resp' = Response(tk, 404, NoBody)
                /\ UNCHANGED <<pipeline, sender, events, apiKeyEnv, jwtSecretEnv, now, tokens, files, indexFile, lock,
                               chunked_uploads, nextId, nextSid, tasks>>
           ELSE LET session == chunked_uploads[session_id]
                    body == [kind |-> "session", session |-> session]
                    parsed == artifacts_of(session)
                IN
                IF ~IsOwner(session, payload) \/ CountMismatch(session) \/ parsed.kind # "ok"
                THEN /\ resp' = Response(tk, IF ~IsOwner(session, payload) THEN 403
                                             ELSE IF CountMismatch(session) THEN 400
                                             ELSE 500, body)
                     /\ UNCHANGED <<pipeline, sender, events, apiKeyEnv, jwtSecretEnv, now, tokens, files, indexFile,
                                    lock, chunked_uploads, nextId, nextSid, tasks>>
                ELSE /\ nextId \in DOMAIN files
                     /\ nextId' = nextId + 1
                     /\ tasks' = [tasks EXCEPT ![t] =
                           [tk EXCEPT !.m = "put", !.pc = "lock", !.id = nextId,
                                      !.doc = ArtifactDoc(nextId, session.metadata,
                                                          UserId(payload), parsed.artifacts,
                                                          "chunked")]]
                     /\ resp' = NoResponse
                     /\ UNCHANGED <<pipeline, sender, events, apiKeyEnv, jwtSecretEnv, now, tokens, files, indexFile,
                                    lock, chunked_uploads, nextSid>>

----------------------------------------------------------------------------
(* Specifications *)

\* bearer strings a client may present
Bearers == tokens \cup {Garbage}

\* chunks a client cuts from TextDocA (8 bytes each) and a string that is no
\* base64
PieceA0 == b64encode(SubSeq(TextDocA, 1, 8))
PieceA1 == b64encode(SubSeq(TextDocA, 9, 16))
BadBase64 == <<0>>
ChunkPayloads == {PieceA0, PieceA1, BadBase64}
ChunkNumbers == 0..MaxChunks
TotalChoices == -1..MaxChunks
SessionIds == 1..MaxSessions
UploadMeta == CHOOSE meta \in Metas : meta.container_id = "abc123"

Init ==
    /\ apiKeyEnv = "k1"
    /\ jwtSecretEnv = "s1"
    /\ now = 0
    /\ tokens = {}
    /\ files = [i \in ArtifactIds |-> Absent]
    /\ indexFile = Whole(<<>>)
    /\ lock = 0
    /\ chunked_uploads = <<>>
    /\ nextId = 1
    /\ nextSid = 1
    /\ tasks = [t \in TaskIds |-> Idle]
    /\ resp = NoResponse
    /\ sender = ArtifactSender("", 3, 10 * 1024 * 1024)
    /\ events = <<>>
    /\ pipeline = NoPipeline

\* the whole REST surface
Next ==
    \/ \E k \in {"k1", "k2"} : Login(k)
    \/ Health
    \/ \E b \in Bearers : Me(b)
    \/ \E t \in TaskIds, b \in Bearers : CreateArtifact(t, b, UploadMeta, "{}")
    \/ \E t \in TaskIds, b \in Bearers, i \in ArtifactIds : GetArtifact(t, b, i)
    \/ \E t \in TaskIds, b \in Bearers : ListArtifacts(t, b, NoQuery)
    \/ \E t \in TaskIds, b \in Bearers, i \in ArtifactIds : DeleteArtifact(t, b, i)
    \/ \E b \in Bearers : InitChunked(b, UploadMeta, 1)
    \/ \E b \in Bearers, s \in SessionIds : UploadChunk(b, s, 0, b64encode(TextDocA))
    \/ \E t \in TaskIds, b \in Bearers, s \in SessionIds : Finalize(t, b, s)
    \/ \E t \in TaskIds : StoreStep(t)

Spec == Init /\ [][Next]_vars

\* submitting, deleting and post-store processing, with filesystem failures
\* in the background task
NextProcess ==
    \/ Login("k1")
    \/ \E t \in TaskIds, b \in tokens : CreateArtifact(t, b, UploadMeta, "{}")
    \/ \E t \in TaskIds, b \in tokens, i \in ArtifactIds : DeleteArtifact(t, b, i)
    \/ \E b \in tokens : InitChunked(b, UploadMeta, 1)
    \/ \E b \in tokens, s \in SessionIds : UploadChunk(b, s, 0, b64encode(TextDocA))
    \/ \E t \in TaskIds, b \in tokens, s \in SessionIds : Finalize(t, b, s)
    \/ \E t \in TaskIds : WriterStep(t)
    \/ \E t \in TaskIds : IOError(t)

SpecProcess == Init /\ [][NextProcess]_vars

\* chunked upload, with every argument the three endpoints accept
InitUpload ==
    /\ Init

NextUpload ==
    \/ Login("k1")
    \/ IssueToken("mallory")
    \/ \E b \in tokens, n \in TotalChoices : InitChunked(b, UploadMeta, n)
    \/ \E b \in tokens, s \in SessionIds, n \in ChunkNumbers, d \in ChunkPayloads :
          UploadChunk(b, s, n, d)
    \/ \E t \in TaskIds, b \in tokens, s \in SessionIds : Finalize(t, b, s)
    \/ \E t \in TaskIds : WriterStep(t)

SpecUpload == InitUpload /\ [][NextUpload]_vars

\* the Auth Gate alone, in every configuration of the two secrets
InitAuth ==
    /\ apiKeyEnv \in ConfiguredKeys \cup {NoValue}
    /\ jwtSecretEnv \in JwtSecrets \cup {NoValue}
    /\ now = 0
    /\ tokens = {}
    /\ files = [i \in ArtifactIds |-> Absent]
    /\ indexFile = Whole(<<>>)
    /\ lock = 0
    /\ chunked_uploads = <<>>
    /\ nextId = 1
    /\ nextSid = 1
    /\ tasks = [t \in TaskIds |-> Idle]
    /\ resp = NoResponse
    /\ sender = ArtifactSender("", 3, 10 * 1024 * 1024)
    /\ events = <<>>
    /\ pipeline = NoPipeline

NextAuth ==
    \/ \E k \in ApiKeys : Login(k)
    \/ \E b \in Bearers : Me(b)
    \/ Tick

SpecAuth == InitAuth /\ [][NextAuth]_vars

----------------------------------------------------------------------------
(* Claims about the Store, checked under SpecStore *)

\* between acquiring Database.lock and releasing it
InCritical(t) ==
    tasks[t].pc \in {"u_read", "f_open", "f_write", "f_close",
                     "i_load", "i_open", "i_write", "i_close"}

\* what the method of task tk makes of a loaded index
AppliedTo(tk, index) ==
    IF tk.m = "put" THEN IndexSet(index, IndexEntry(tk.doc))
    ELSE IF tk.m = "update" THEN IndexSetStatus(index, tk.id, tk.status)
    ELSE IndexDel(index, tk.id)

\* C4: put, updateStatus and delete are mutually exclusive: no two of them
\* are at once between reading and writing the artifact file or the index
\* file, and the index a writer is about to save is its own change applied to
\* the index as it is in the file at that moment (no update of another
\* writer slipped in between its load and its save, so none is lost).
C4_WritersMutuallyExclusive ==
    /\ \A t, u \in TaskIds : (t # u /\ InCritical(t)) => ~InCritical(u)
    /\ \A t \in TaskIds : InCritical(t) => lock = t
    /\ \A t \in TaskIds :
          tasks[t].pc = "i_open" =>
             /\ indexFile.kind = "whole"
             /\ tasks[t].idx = AppliedTo(tasks[t], indexFile.content)
    /\ \A t \in TaskIds :
          tasks[t].pc \in {"u_read", "f_open"} => files[tasks[t].id].kind \in {"absent", "whole"}

C4_Witness ==
    \E t, u \in TaskIds :
        /\ t # u
        /\ tasks[t].pc = "i_open" /\ tasks[t].m = "update"
        /\ tasks[u].pc = "lock" /\ tasks[u].m \in {"put", "delete"}
        /\ tasks[u].id = tasks[t].id
        /\ Len(indexFile.content) = 2

\* C5: get and list serialize through the same lock as the writers, so what
\* they read is never a truncated or half-written index or artifact file.
C5_ReadsNeverTorn ==
    (resp.m \in {"get", "list"} /\ resp.code \in {200, 500}) => resp.body.read = "whole"

----------------------------------------------------------------------------
(* Claims about the Auth Gate, checked under Spec and SpecAuth *)

Gated == {"me", "create", "get", "list", "delete", "init", "chunk", "finalize"}

C2_SecretAsymmetry ==
    resp.ep = "login" =>
       IF apiKeyEnv \notin {NoValue, ""}
       THEN resp.body.api_key # apiKeyEnv =>
               (resp.code = 401 /\ resp.body.token = Garbage)
       ELSE resp.code = 200 /\ resp.body.token \in tokens

\* C3: a token issued by generate_token is accepted by verify_token, which
\* returns its claims, at every moment before its expiry, whatever the
\* configuration of the signing key.
C3_IssuedTokenAccepted ==
    (resp.ep = "me" /\ resp.body.token \in tokens /\ now < resp.body.token.exp) =>
       /\ resp.code = 200
       /\ resp.payload.kind = "payload"
       /\ resp.payload.user_id = resp.body.token.user_id

----------------------------------------------------------------------------
(* Claims about chunked upload, checked under SpecUpload *)

\* a finalize coroutine starts: the handler got as far as db.store_artifact
Starts(t, ep) == tasks[t].op = "idle" /\ tasks'[t].op = ep

\* C7: finalize, asked by its owner, of a session whose number of received
\* chunks differs from the declared total is answered 400, and stores no
\* artifact (nothing is written, no id drawn, no coroutine started, the
\* session kept).
C7_FinalizeCountMismatch ==
    [][\A s \in DOMAIN chunked_uploads :
          Len(chunked_uploads[s].received_chunks) # chunked_uploads[s].total_chunks =>
             /\ \A t \in TaskIds : Starts(t, "finalize") => tasks'[t].sid # s
             /\ (/\ resp'.ep = "finalize" /\ resp'.sid = s
                 /\ resp'.body.kind = "session"
                 /\ resp'.payload.user_id = chunked_uploads[s].user_id)
                => /\ resp'.code = 400
                   /\ UNCHANGED <<files, indexFile, nextId, tasks, chunked_uploads>>]_vars

C7_Witness ==
    /\ resp.ep = "finalize" /\ resp.code = 400
    /\ Len(resp.body.session.received_chunks) = 1
    /\ resp.body.session.total_chunks = 2
    /\ resp.sid \in DOMAIN chunked_uploads

\* the decoded chunks concatenated in ascending chunk-number order
RECURSIVE AscendingJoin(_)
AscendingJoin(received) ==
    IF Len(received) = 0 THEN <<>>
    ELSE LET p == CHOOSE i \in 1..Len(received) :
                     \A j \in 1..Len(received) : received[i].number <= received[j].number
         IN  b64decode(received[p].data)
             \o AscendingJoin(SubSeq(received, 1, p - 1) \o SubSeq(received, p + 1, Len(received)))

\* the document a session's chunks 0..total-1 spell, if they spell one
Spelled(session) ==
    LET received == session.received_chunks
        parsed == json_loads(AscendingJoin(received)) IN
    IF /\ {received[i].number : i \in 1..Len(received)} = 0..(session.total_chunks - 1)
       /\ parsed.kind = "object" /\ parsed.has_artifacts
    THEN [kind |-> "ok", artifacts |-> parsed.artifacts]
    ELSE Raise

\* C8: a successful finalize stores the document obtained by concatenating
\* the decoded chunks in ascending chunk-number order 0..total-1, whatever
\* the order in which they arrived and however often one was sent again:
\* the artifact it builds and writes is that document, and a finalize of a
\* complete session whose chunks spell a document does not fail.
C8_FinalizeAscendingOrder ==
    /\ [][\A t \in TaskIds : Starts(t, "finalize") =>
             LET want == Spelled(chunked_uploads[tasks'[t].sid]) IN
             /\ want.kind = "ok"
             /\ tasks'[t].doc.artifacts = want.artifacts]_vars
    /\ [][(resp'.ep = "finalize" /\ resp'.code = 200) =>
             \E t \in TaskIds : /\ tasks[t].op = "finalize" /\ tasks[t].id = resp'.id
                                /\ files'[resp'.id] = Whole(tasks[t].doc)]_vars
    /\ []((resp.ep = "finalize" /\ resp.code = 500 /\ resp.body.kind = "session")
             => Spelled(resp.body.session).kind # "ok")

C8_Witness ==
    \E t \in TaskIds :
        /\ tasks[t].op = "finalize" /\ tasks[t].pc = "i_close"
        /\ tasks[t].sid \in DOMAIN chunked_uploads
        /\ chunked_uploads[tasks[t].sid].received_chunks[1].number = 1
        /\ files[tasks[t].id] = Whole(tasks[t].doc)
        /\ tasks[t].doc.artifacts = "{}"

\* C9: a chunk or finalize request whose token subject differs from the
\* owner recorded at init is answered 403 and leaves the session table and
\* the Store as they were; no finalize coroutine starts for it.
C9_OwnerOnly ==
    [][/\ \A t \in TaskIds : Starts(t, "finalize") =>
             chunked_uploads[tasks'[t].sid].user_id = tasks'[t].payload.user_id
       /\ (/\ resp'.ep \in {"chunk", "finalize"}
           /\ resp'.body.kind \in {"chunk", "session"}
           /\ resp'.sid \in DOMAIN chunked_uploads
           /\ chunked_uploads[resp'.sid].user_id # resp'.payload.user_id)
          => /\ resp'.code = 403
             /\ UNCHANGED <<chunked_uploads, files, indexFile, nextId, tasks>>]_vars

C9_Witness ==
    /\ resp.ep = "finalize" /\ resp.code = 403
    /\ resp.payload.user_id = "mallory"
    /\ resp.body.session.user_id = "forensics_user"
    /\ Len(resp.body.session.received_chunks) = resp.body.session.total_chunks
    /\ resp.sid \in DOMAIN chunked_uploads

\* C10: init with a declared total of zero or less is rejected with a
\* ValidationFailure (400) and creates no session.
C10_NonPositiveTotalRejected ==
    /\ (resp.ep = "init" /\ resp.payload.kind = "payload" /\ resp.body.total_chunks <= 0)
          => resp.code = 400
    /\ \A s \in DOMAIN chunked_uploads : chunked_uploads[s].total_chunks > 0

----------------------------------------------------------------------------
(* utils/artifact_sender.py: the Sender.  requests.post blocks until the   *)
(* answer is there, so one step is one request together with its answer    *)
(* and everything the code does up to the next request.                    *)

MaxRetries == 3       \* largest retry_count configured
RecursionLimit == 3   \* nested _send_chunked calls the interpreter allows

\* what a POST comes back with: a response, or an exception of requests
Status(code) == [exc |-> "", status_code |-> code, access_token |-> FALSE]
Raised(exc) == [exc |-> exc, status_code |-> 0, access_token |-> FALSE]

StatusCodes == {200, 201, 401, 403, 413, 500}
Exceptions == {"Timeout", "ConnectionError", "Exception"}
Answers == {Status(c) : c \in StatusCodes} \cup {Raised(e) : e \in Exceptions}

\* answers of the login endpoint: a token, a 200 body without access_token,
\* a rejection, or a RequestException
LoginAnswers ==
    {[Status(200) EXCEPT !.access_token = TRUE], Status(200), Status(401),
     Status(500), Raised("RequestException")}

NoSleep == Status(0)

\* one request of the Sender with its answer (or one time.sleep, n seconds)
Event(req, n, is_last, data, ans) ==
    [req |-> req, n |-> n, is_last |-> is_last, data |-> data, ans |-> ans,
     authorization |-> IF req \in {"login", "sleep"} THEN NoValue
                       ELSE sender.authorization,
     session_id |-> IF req \in {"chunk", "finalize"} THEN sender.session_id
                    ELSE 0]

\* return statement of send_artifacts / _send_direct / _send_chunked
Return(s, result) == [s EXCEPT !.pc = "done", !.result = result]

\* _login 71-77: what it answers without a request; "post" when it has to ask
login_without_request(s) ==
    IF s.api_key = "" THEN "False"
    ELSE IF s.jwt_token # NoValue THEN "True"
    ELSE "post"

\* _login 95-111 mutated: any answered login counts as accepted
LoginAcceptedAnyAnswer(ans) == ans.exc = ""

\* _login 95-98: status 200 with an access_token
LoginAccepted(ans) ==
    ans.exc = "" /\ ans.status_code = 200 /\ ans.access_token

\* _login 79-111: the Sender after the login request was answered
login_answered(s, ans) ==
    IF LoginAccepted(ans)
    THEN [s EXCEPT !.jwt_token = "jwt", !.authorization = "Bearer jwt"]
    ELSE [s EXCEPT !.jwt_token = NoValue]

\* send_artifacts 137 mutated: the threshold itself is sent chunked
NeedsChunkingFromThreshold(data_size, chunk_size) == data_size >= chunk_size

\* send_artifacts 137: if data_size > self.chunk_size
NeedsChunking(data_size, chunk_size) == data_size > chunk_size

\* _send_direct 148: the for loop goes to `attempt`, or falls out of the loop
\* to line 221
Loop(s, attempt) ==
    IF attempt < s.retry_count
    THEN [s EXCEPT !.pc = "direct", !.attempt = attempt]
    ELSE Return(s, Result(FALSE, "Max retries exceeded", 0))

\* a call of _send_chunked (139, 182, 244): one more frame; past the
\* interpreter's limit the call raises RecursionError, caught at 296
enter_chunked(s) ==
    IF s.depth + 1 > RecursionLimit
    THEN Return(s, Result(FALSE, "Chunked upload failed", 0))
    ELSE [s EXCEPT !.pc = "chunked_init", !.depth = s.depth + 1]

\* send_artifacts 133-142: direct or chunked, by the encoded size
dispatch(s) ==
    IF NeedsChunking(Len(s.data), s.chunk_size)
    THEN enter_chunked(s)
    ELSE Loop(s, 0)

serverVars ==
    <<apiKeyEnv, jwtSecretEnv, now, tokens, files, indexFile, lock,
      chunked_uploads, nextId, nextSid, tasks, resp>>

ServerUnchanged == UNCHANGED <<serverVars, pipeline>>

\* send_artifacts 113-119, up to the login request if one is needed: the
\* Sender once the call is under way
send_artifacts(sender0, data) ==
    LET s == [sender0 EXCEPT !.data = data]
        known == login_without_request(s)
    IN  IF known = "False"
        THEN Return(s, Result(FALSE, "Authentication failed.", 0))
        ELSE IF known = "True" THEN dispatch(s)
        ELSE [s EXCEPT !.pc = "login"]

SendArtifacts(data) ==
    /\ sender.pc = "idle"
    /\ sender' = send_artifacts(sender, data)
    /\ UNCHANGED events
    /\ ServerUnchanged

\* send_artifacts 118-142: the login request of _login and what follows it
SenderLogin(ans) ==
    LET s == login_answered(sender, ans) IN
    /\ sender.pc = "login"
    /\ events' = Append(events, Event("login", 0, FALSE, <<>>, ans))
    /\ sender' = IF LoginAccepted(ans) THEN dispatch(s)
                 ELSE Return(s, Result(FALSE, "Authentication failed.", 0))
    /\ ServerUnchanged

\* _send_direct 187, 202, 211: if attempt < self.retry_count - 1
AttemptsLeft(attempt, retry_count) == attempt < retry_count - 1

\* _send_direct 188 mutated: the wait grows linearly
wait_time_linear(attempt) == 2 * attempt

\* _send_direct 188, 203, 212: 2 ** attempt seconds
wait_time(attempt) == 2 ^ attempt

\* _send_direct 158 mutated: only 200 counts as success
DirectAccepted200Only(ans) == ans.status_code = 200

\* _send_direct 158: status 200 or 201
DirectAccepted(ans) == ans.status_code = 200 \/ ans.status_code = 201

\* _send_direct 180 mutated: 413 is treated as any other error status
PayloadTooLargeNever(ans) == FALSE

\* _send_direct 180: elif response.status_code == 413
PayloadTooLarge(ans) == ans.status_code = 413

\* 169-170 and 242-243: the token is dropped and _login is called again;
\* `pc` is where the Sender waits for the login answer, `failed` what it
\* returns when _login says False
force_relogin(s, pc, failed) ==
    LET dropped == [s EXCEPT !.jwt_token = NoValue] IN
    IF login_without_request(dropped) = "False" THEN Return(dropped, failed)
    ELSE [dropped EXCEPT !.pc = pc]

\* the error message of a failed attempt, 184, 199, 208
error_msg(ans) ==
    IF ans.exc = "Timeout" THEN "Request timed out"
    ELSE IF ans.exc = "ConnectionError" THEN "Connection error"
    ELSE "API returned status"

\* _send_direct 148-219: one attempt, from the POST to the next request
DirectPost(ans) ==
    LET s == sender
        sent == Event("artifacts", s.attempt, FALSE, s.data, ans)
        answered == ans.exc = ""
        failed == \/ ans.exc \in {"Timeout", "ConnectionError"}
                  \/ /\ answered
                     /\ ~DirectAccepted(ans)
                     /\ ans.status_code # 401
                     /\ ~PayloadTooLarge(ans)
        again == AttemptsLeft(s.attempt, s.retry_count)
    IN
    /\ s.pc = "direct"
    /\ events' = IF failed /\ again
                 THEN events \o <<sent, Event("sleep", wait_time(s.attempt),
                                              FALSE, <<>>, NoSleep)>>
                 ELSE Append(events, sent)
    /\ sender' =
         IF answered /\ DirectAccepted(ans)
         THEN Return(s, Result(TRUE, "", 0))
         ELSE IF answered /\ ans.status_code = 401
         THEN force_relogin(s, "relogin_direct",
                            Result(FALSE, "Re-authentication failed.", 401))
         ELSE IF answered /\ PayloadTooLarge(ans)
         THEN enter_chunked(s)
         ELSE IF failed
         THEN IF again THEN Loop(s, s.attempt + 1)
              ELSE Return(s, Result(FALSE, error_msg(ans), ans.status_code))
         ELSE Return(s, Result(FALSE, "Unexpected error", 0))
    /\ ServerUnchanged

\* _send_direct 170-179: the login request after a 401, then `continue`
ReloginDirect(ans) ==
    LET s == login_answered(sender, ans) IN
    /\ sender.pc = "relogin_direct"
    /\ events' = Append(events, Event("login", 0, FALSE, <<>>, ans))
    /\ sender' = IF LoginAccepted(ans) THEN Loop(s, s.attempt + 1)
                 ELSE Return(s, Result(FALSE, "Re-authentication failed.", 401))
    /\ ServerUnchanged

\* _calculate_chunks mutated: the division rounds down
_calculate_chunks_floor(data_size, chunk_size) == data_size \div chunk_size

\* _calculate_chunks 301-305
_calculate_chunks(data_size, chunk_size) ==
    (data_size + chunk_size - 1) \div chunk_size

\* _split_into_chunks mutated: encoded[i:i + self.chunk_size - 1]
RECURSIVE _split_short_slices(_, _)
_split_short_slices(encoded, chunk_size) ==
    IF encoded = <<>> THEN <<>>
    ELSE IF Len(encoded) <= chunk_size
    THEN <<b64encode(SubSeq(encoded, 1, IF Len(encoded) < chunk_size
                                        THEN Len(encoded) ELSE chunk_size - 1))>>
    ELSE <<b64encode(SubSeq(encoded, 1, chunk_size - 1))>>
         \o _split_short_slices(SubSeq(encoded, chunk_size + 1, Len(encoded)),
                                chunk_size)

\* _split_into_chunks 307-318: chunk_size-byte slices, each base64-encoded
RECURSIVE _split_into_chunks(_, _)
_split_into_chunks(encoded, chunk_size) ==
    IF encoded = <<>> THEN <<>>
    ELSE IF Len(encoded) <= chunk_size THEN <<b64encode(encoded)>>
    ELSE <<b64encode(SubSeq(encoded, 1, chunk_size))>>
         \o _split_into_chunks(SubSeq(encoded, chunk_size + 1, Len(encoded)),
                               chunk_size)

\* _send_chunked 228-255: init, to the first chunk request
ChunkedInit(ans) ==
    LET s == sender
        total_chunks == _calculate_chunks(Len(s.data), s.chunk_size)
        chunks == _split_into_chunks(s.data, s.chunk_size)
        failure == Result(FALSE, "Failed to initialize chunked upload", 0)
    IN
    /\ s.pc = "chunked_init"
    /\ events' = Append(events, Event("init", total_chunks, FALSE, <<>>, ans))
    /\ sender' =
         IF ans.exc # ""
         THEN Return(s, Result(FALSE, "Chunked upload failed", 0))
         ELSE IF ans.status_code # 200
         THEN IF ans.status_code = 401
              THEN force_relogin(s, "relogin_chunked", failure)
              ELSE Return(s, failure)
         ELSE [s EXCEPT !.session_id = Len(events) + 1, !.i = 0,
                        !.pc = IF chunks = <<>> THEN "finalize" ELSE "chunk"]
    /\ ServerUnchanged

\* _send_chunked 243-248: the login request after a 401 at init, then the
\* recursive call
ReloginChunked(ans) ==
    LET s == login_answered(sender, ans) IN
    /\ sender.pc = "relogin_chunked"
    /\ events' = Append(events, Event("login", 0, FALSE, <<>>, ans))
    /\ sender' = IF LoginAccepted(ans) THEN enter_chunked(s)
                 ELSE Return(s, Result(FALSE,
                                       "Failed to initialize chunked upload", 0))
    /\ ServerUnchanged

\* _send_chunked 269 mutated: every answered chunk counts as uploaded
ChunkAcceptedAnyStatus(ans) == TRUE

\* _send_chunked 269: status 200
ChunkAccepted(ans) == ans.status_code = 200

\* _send_chunked 257-275: one chunk
ChunkPost(ans) ==
    LET s == sender
        chunks == _split_into_chunks(s.data, s.chunk_size)
        sent == Event("chunk", s.i, s.i = Len(chunks) - 1, chunks[s.i + 1], ans)
    IN
    /\ s.pc = "chunk"
    /\ events' = Append(events, sent)
    /\ sender' =
         IF ans.exc # ""
         THEN Return(s, Result(FALSE, "Chunked upload failed", 0))
         ELSE IF ~ChunkAccepted(ans)
         THEN Return(s, Result(FALSE, "Failed to upload chunk", 0))
         ELSE [s EXCEPT !.i = s.i + 1,
                        !.pc = IF s.i + 1 < Len(chunks) THEN "chunk"
                               ELSE "finalize"]
    /\ ServerUnchanged

\* _send_chunked 277-294: finalize
FinalizePost(ans) ==
    LET s == sender IN
    /\ s.pc = "finalize"
    /\ events' = Append(events, Event("finalize", 0, FALSE, <<>>, ans))
    /\ sender' =
         IF ans.exc # ""
         THEN Return(s, Result(FALSE, "Chunked upload failed", 0))
         ELSE IF ans.status_code = 200
         THEN Return(s, Result(TRUE, "", 0))
         ELSE Return(s, Result(FALSE, "Failed to finalize upload", 0))
    /\ ServerUnchanged

\* the envelopes sent, and the configurations of the Sender
Envelopes == {TextNoKey, TextDocA}
ChunkSizes == {5, 8, 16}
RetryCounts == 0..MaxRetries

InitSender ==
    /\ apiKeyEnv = "k1"
    /\ jwtSecretEnv = "s1"
    /\ now = 0
    /\ tokens = {}
    /\ files = [i \in ArtifactIds |-> Absent]
    /\ indexFile = Whole(<<>>)
    /\ lock = 0
    /\ chunked_uploads = <<>>
    /\ nextId = 1
    /\ nextSid = 1
    /\ tasks = [t \in TaskIds |-> Idle]
    /\ resp = NoResponse
    /\ \E k \in {"", "k1"}, n \in RetryCounts, c \in ChunkSizes,
          cached \in BOOLEAN :
          /\ cached => k # ""
          /\ sender = IF cached
                      THEN [ArtifactSender(k, n, c) EXCEPT
                               !.jwt_token = "jwt",
                               !.authorization = "Bearer jwt"]
                      ELSE ArtifactSender(k, n, c)
    /\ events = <<>>
    /\ pipeline = NoPipeline

NextSender ==
    \/ \E data \in Envelopes : SendArtifacts(data)
    \/ \E ans \in LoginAnswers : SenderLogin(ans)
    \/ \E ans \in Answers : DirectPost(ans)
    \/ \E ans \in LoginAnswers : ReloginDirect(ans)
    \/ \E ans \in Answers : ChunkedInit(ans)
    \/ \E ans \in LoginAnswers : ReloginChunked(ans)
    \/ \E ans \in Answers : ChunkPost(ans)
    \/ \E ans \in Answers : FinalizePost(ans)

SpecSender == InitSender /\ [][NextSender]_vars

----------------------------------------------------------------------------
(* The Sender: claims *)

\* the requests that carry the envelope or a part of it
Transfers == {"artifacts", "init", "chunk", "finalize"}

\* event k is a response (no exception) with this status
Answered(k, code) ==
    events[k].ans.exc = "" /\ events[k].ans.status_code = code

\* event k is the first request of the call that is not a login
FirstTransfer(k) ==
    /\ events[k].req \in Transfers
    /\ \A j \in 1..(k - 1) : events[j].req = "login"

\* C11: the first request after authentication is the direct POST of the
\* envelope exactly when the encoded size is at most the chunk size, and the
\* init of a chunked upload exactly when it is greater.
C11_DirectIffFits ==
    \A k \in 1..Len(events) :
       FirstTransfer(k) =>
          /\ events[k].req = "artifacts"
                <=> Len(sender.data) <= sender.chunk_size
          /\ events[k].req = "init"
                <=> Len(sender.data) > sender.chunk_size

\* an envelope of exactly chunk_size bytes went out in one direct POST
C11_Witness ==
    /\ Len(sender.data) = sender.chunk_size
    /\ \E k \in 1..Len(events) : FirstTransfer(k) /\ events[k].req = "artifacts"

\* the direct POSTs of the envelope sent so far
DirectPosts == {k \in 1..Len(events) : events[k].req = "artifacts"}

\* the result carries the error of the attempt with this answer: the status
\* code of the response, or the message of the exception
Carries(result, ans) ==
    IF ans.exc = "" THEN result.status_code = ans.status_code
    ELSE IF ans.exc = "Timeout" THEN result.error = "Request timed out"
    ELSE IF ans.exc = "ConnectionError" THEN result.error = "Connection error"
    ELSE result.error = "Unexpected error"

\* C12: direct transmission POSTs the envelope at most retry_count times,
\* and when no attempt was answered 200/201 or 413 the call returns a failure
\* that carries the error of the last attempt.
C12_DirectFailureCarriesLastError ==
    /\ Cardinality(DirectPosts) <= sender.retry_count
    /\ ( /\ sender.pc = "done"
         /\ DirectPosts # {}
         /\ \A k \in DirectPosts :
               ~Answered(k, 200) /\ ~Answered(k, 201) /\ ~Answered(k, 413) )
       => /\ ~sender.result.success
          /\ \E k \in DirectPosts :
                /\ \A j \in DirectPosts : j <= k
                /\ Carries(sender.result, events[k].ans)

\* C13: a 401 followed by a successful re-authentication is retried as the
\* same attempt: the attempt number is not advanced and no backoff sleep is
\* taken.
C13_ReauthKeepsAttempt ==
    [][(sender.pc = "relogin_direct" /\ sender'.jwt_token # NoValue)
          => /\ sender'.pc = "direct"
             /\ sender'.attempt = sender.attempt
             /\ events'[Len(events')].req # "sleep"]_vars

\* the results the chunked flow returns
ChunkedResult(result) ==
    \/ result.success
    \/ result.error \in {"Failed to initialize chunked upload",
                         "Failed to upload chunk", "Failed to finalize upload",
                         "Chunked upload failed"}

\* C14: once a direct POST was answered 413, the next request is the init of
\* a chunked upload, no backoff sleep and no direct POST follows, and the
\* call returns what the chunked flow returns.
C14_TooLargeSwitchesToChunked ==
    \A k \in DirectPosts :
       Answered(k, 413) =>
          /\ \A j \in (k + 1)..Len(events) :
                events[j].req \notin {"artifacts", "sleep"}
          /\ Len(events) > k => events[k + 1].req = "init"
          /\ IF sender.pc = "done" THEN ChunkedResult(sender.result)
             ELSE sender.pc \in {"chunked_init", "relogin_chunked", "chunk",
                                 "finalize"}

\* a second direct attempt was answered 413 and the chunked upload that
\* followed succeeded
C14_Witness ==
    /\ sender.pc = "done"
    /\ sender.result.success
    /\ \E k \in DirectPosts : Answered(k, 413) /\ events[k].n = 1
    /\ events[Len(events)].req = "finalize"

\* the requests of the chunked flow sent so far
ChunkedPosts ==
    {k \in 1..Len(events) : events[k].req \in {"init", "chunk", "finalize"}}

\* C15: a 401 at any step of the chunked flow (init, a chunk, finalize) is
\* followed by a re-authentication, not by a failure result.
C15_ChunkedReauthAtAnyStep ==
    \A k \in ChunkedPosts :
       Answered(k, 401) =>
          IF Len(events) > k THEN events[k + 1].req = "login"
          ELSE sender.pc = "relogin_chunked"

\* the forced re-authentications of the call: logins that follow a 401 and
\* are answered with a token
Reauths ==
    {k \in 2..Len(events) :
        /\ events[k].req = "login"
        /\ Answered(k - 1, 401)
        /\ Answered(k, 200) /\ events[k].ans.access_token}

\* C16: a 401 is a one-shot signal, so the forced re-authentications of one
\* call are bounded by the retry policy whatever the server answers: at most
\* one per direct attempt and one for the chunked flow.
C16_ReauthBounded ==
    Cardinality(Reauths) <= sender.retry_count + 1

\* ceil(size / chunk_size): the least count of chunk_size-byte slices that
\* cover size bytes
Ceil(size, chunk_size) ==
    CHOOSE m \in 0..size :
       /\ m * chunk_size >= size
       /\ \A l \in 0..(m - 1) : l * chunk_size < size

\* C17: init declares ceil(size / chunk_size) chunks; chunk 0 follows an
\* accepted init and chunk n > 0 follows chunk n-1 acknowledged with 200;
\* chunk numbers stay below the count and is_last marks exactly the chunk
\* count-1; finalize follows the acknowledged chunk count-1.
C17_ChunksInOrder ==
    LET count == Ceil(Len(sender.data), sender.chunk_size) IN
    \A k \in ChunkedPosts :
       LET e == events[k] IN
       /\ e.req = "init" => e.n = count
       /\ e.req = "chunk" =>
             /\ e.n \in 0..(count - 1)
             /\ e.is_last <=> e.n = count - 1
             /\ Answered(k - 1, 200)
             /\ IF e.n = 0 THEN events[k - 1].req = "init"
                ELSE events[k - 1].req = "chunk" /\ events[k - 1].n = e.n - 1
       /\ e.req = "finalize" =>
             /\ events[k - 1].req = "chunk"
             /\ events[k - 1].n = count - 1
             /\ Answered(k - 1, 200)

\* a 16-byte envelope went out in four 5-byte chunks and was finalized
C17_Witness ==
    /\ Len(events) >= 6
    /\ events[Len(events)].req = "finalize"
    /\ events[Len(events) - 1].n = 3
    /\ events[Len(events) - 1].is_last
    /\ events[Len(events) - 5].req = "init"
    /\ events[Len(events) - 5].n = 4

\* C18: a chunk POST that is not acknowledged with 200 (another status, or
\* an exception) is the last request of the call, which returns a failure:
\* no further chunk and no finalize is sent.
C18_ChunkFailureAborts ==
    \A k \in ChunkedPosts :
       (events[k].req = "chunk" /\ ~Answered(k, 200)) =>
          /\ Len(events) = k
          /\ sender.pc = "done"
          /\ ~sender.result.success

\* the second chunk of an upload was answered 500 and the call has returned
C18_Witness ==
    /\ sender.pc = "done"
    /\ Len(events) >= 3
    /\ events[Len(events)].req = "chunk"
    /\ events[Len(events)].n = 1
    /\ Answered(Len(events), 500)
    /\ sender.result.error = "Failed to upload chunk"

\* event k is a login that the server answered with a token
TokenGranted(k) == Answered(k, 200) /\ events[k].ans.access_token

\* C19: with no shared secret the call returns the authentication failure
\* without any request; a login that is rejected, fails or yields no token
\* leaves no token cached and ends the call with a failure, and when it is
\* the login that opens the call, nothing but that login was ever sent.
C19_AuthFailsClosed ==
    /\ (sender.api_key = "" /\ sender.pc # "idle") =>
          /\ events = <<>>
          /\ sender.jwt_token = NoValue
          /\ sender.pc = "done"
          /\ sender.result = Result(FALSE, "Authentication failed.", 0)
    /\ \A k \in 1..Len(events) :
          (events[k].req = "login" /\ ~TokenGranted(k)) =>
             /\ Len(events) = k
             /\ sender.jwt_token = NoValue
             /\ sender.pc = "done"
             /\ ~sender.result.success
             /\ k = 1 => sender.result.error = "Authentication failed."

\* the login that opens the call was rejected with 401
C19_Witness ==
    /\ Len(events) = 1
    /\ events[1].req = "login"
    /\ Answered(1, 401)
    /\ sender.pc = "done"
    /\ sender.result.error = "Authentication failed."

\* event k is a response with a definitive error: not 2xx, 401 or 413
DefinitiveError(k) ==
    /\ events[k].ans.exc = ""
    /\ events[k].ans.status_code \notin {200, 201, 401, 413}

\* event k is a transient network failure
TransientFailure(k) == events[k].ans.exc \in {"Timeout", "ConnectionError"}

\* C20 as stated: a definitive error response other than 401 and 413 is
\* never followed by another request that carries the envelope.
C20_NoResendAfterDefinitiveError ==
    \A k \in 1..Len(events) :
       (events[k].req \in Transfers /\ DefinitiveError(k)) =>
          \A j \in (k + 1)..Len(events) : events[j].req \notin Transfers

\* C20 amended: in direct transmission the envelope is re-sent only after a
\* 401 with a successful re-authentication, or, while attempts remain and
\* after a backoff sleep, after a transient network failure or an error
\* response other than 401 and 413; in chunked transmission an answer other
\* than 200, except a 401 at init, is never followed by another request.
C20_ResendPolicy ==
    /\ \A k \in DirectPosts :
          /\ \A j \in DirectPosts : j < k => events[j].n < events[k].n
          /\ events[k].n > 0 =>
                /\ events[k - 2].req = "artifacts"
                /\ events[k - 2].n = events[k].n - 1
                /\ \/ /\ Answered(k - 2, 401)
                      /\ events[k - 1].req = "login"
                      /\ TokenGranted(k - 1)
                   \/ /\ TransientFailure(k - 2) \/ DefinitiveError(k - 2)
                      /\ events[k - 2].n < sender.retry_count - 1
                      /\ events[k - 1].req = "sleep"
    /\ \A k \in ChunkedPosts :
          (~Answered(k, 200) /\ ~(events[k].req = "init" /\ Answered(k, 401)))
             => Len(events) = k /\ sender.pc = "done"

\* a direct POST answered 500 was followed by a backoff sleep and a second
\* POST of the envelope
C20_Witness ==
    \E k \in DirectPosts :
       /\ Answered(k, 500)
       /\ Len(events) >= k + 2
       /\ events[k + 1].req = "sleep"
       /\ events[k + 2].req = "artifacts"

\* event k is a direct attempt that failed in a way the Sender retries
FailedAttempt(k) ==
    /\ events[k].req = "artifacts"
    /\ TransientFailure(k) \/ DefinitiveError(k)

\* 2^k by repeated doubling
RECURSIVE PowerOfTwo(_)
PowerOfTwo(k) == IF k = 0 THEN 1 ELSE 2 * PowerOfTwo(k - 1)

\* C30: a failed direct attempt k that is not the last is followed by a
\* sleep of 2^k seconds and then by attempt k+1; the last attempt, and every
\* attempt that did not fail in this way, is followed by no sleep.
C30_BackoffDoubles ==
    /\ \A k \in DirectPosts :
          (FailedAttempt(k) /\ events[k].n < sender.retry_count - 1) =>
             /\ Len(events) >= k + 1
             /\ events[k + 1].req = "sleep"
             /\ events[k + 1].n = PowerOfTwo(events[k].n)
             /\ IF Len(events) >= k + 2
                THEN /\ events[k + 2].req = "artifacts"
                     /\ events[k + 2].n = events[k].n + 1
                ELSE sender.pc = "direct" /\ sender.attempt = events[k].n + 1
    /\ \A k \in 1..Len(events) :
          events[k].req = "sleep" =>
             /\ k > 1
             /\ FailedAttempt(k - 1)
             /\ events[k - 1].n < sender.retry_count - 1

\* attempts 0 and 1 of three failed and were followed by sleeps of 1 and 2
\* seconds; attempt 2 failed as well and the call returned without sleeping
C30_Witness ==
    /\ sender.retry_count = 3
    /\ sender.pc = "done"
    /\ Len(events) = 5
    /\ events[2].req = "sleep" /\ events[2].n = 1
    /\ events[4].req = "sleep" /\ events[4].n = 2
    /\ FailedAttempt(5)

----------------------------------------------------------------------------
(* The Store: claims about get, list and delete *)

\* task t is inside delete_artifact, behind the unlink of the artifact file
Deleting(t) ==
    tasks[t].m = "delete" /\ tasks[t].pc \in {"i_load", "i_open", "i_write", "i_close"}

\* C23: delete on a present id holds the lock from the removal of the file
\* to the removal of the index entry and answers true with both gone;
\* delete on an absent id answers false and changes neither the artifact
\* files nor the index.
C23_DeleteBothOrNothing ==
    [][/\ \A t \in TaskIds :
             (tasks[t].m = "delete" /\ tasks[t].pc = "lock"
                /\ tasks'[t] # tasks[t]) =>
                IF files[tasks[t].id].kind = "absent"
                THEN /\ resp'.m = "delete" /\ resp'.code = 404
                     /\ files' = files /\ indexFile' = indexFile
                     /\ lock' = lock
                ELSE /\ Deleting(t)' /\ lock' = t
                     /\ files'[tasks[t].id] = Absent
       /\ \A t \in TaskIds :
             Deleting(t) =>
                /\ lock = t
                /\ files[tasks[t].id] = Absent
                /\ tasks'[t] # tasks[t] =>
                      \/ Deleting(t)' /\ lock' = t
                      \/ /\ resp'.m = "delete" /\ resp'.code = 200
                         /\ resp'.id = tasks[t].id
                         /\ lock' = 0
                         /\ files'[resp'.id] = Absent
                         /\ indexFile'.kind = "whole"
                         /\ ~InIndex(indexFile'.content, resp'.id)]_vars

\* a delete has just answered true, its entry was removed from the index and
\* the other artifact is still there
C23_Witness ==
    /\ resp.m = "delete" /\ resp.code = 200
    /\ indexFile.kind = "whole"
    /\ Len(indexFile.content) = 1
    /\ ~InIndex(indexFile.content, resp.id)
    /\ files[resp.id] = Absent

\* a put or a delete of this id is in progress
Unsettled(artifact_id) ==
    \E t \in TaskIds :
       tasks[t].id = artifact_id /\ tasks[t].m \in {"put", "delete"}

\* the checksum that came with this container id
ChecksumOf(container_id) ==
    (CHOOSE meta \in Metas : meta.container_id = container_id).checksum

\* C21: a get answered while the index holds the entry of a finished put of
\* that id (no put or delete of the id in progress) returns the artifact with
\* the id, container id and checksum given to that put.
C21_GetAfterPut ==
    ( /\ resp.m = "get"
      /\ indexFile.kind = "whole"
      /\ InIndex(indexFile.content, resp.id)
      /\ ~Unsettled(resp.id) )
    => LET entry == indexFile.content[IndexPos(indexFile.content, resp.id)] IN
       /\ resp.code = 200
       /\ resp.body.kind = "doc"
       /\ resp.body.doc.id = resp.id
       /\ resp.body.doc.container_id = entry.container_id
       /\ resp.body.doc.checksum = ChecksumOf(entry.container_id)

\* the orders in which the index entries that match container_id (all of
\* them when none is given) are sorted by created_at descending: sequences
\* of index positions
SortedOrders(index, container_id) ==
    LET matching == {k \in 1..Len(index) :
                        container_id = "" \/ index[k].container_id = container_id}
        n == Cardinality(matching)
    IN  {p \in [1..n -> matching] :
            /\ \A a, b \in 1..n : a # b => p[a] # p[b]
            /\ \A a, b \in 1..n :
                  a < b => index[p[a]].created_at >= index[p[b]].created_at}

\* items are the elements offset .. offset+limit-1 (counted from 0) of the
\* sorted sequence
IsPage(items, index, q) ==
    \E p \in SortedOrders(index, q.container_id) :
       LET rest == IF Len(p) > q.offset THEN Len(p) - q.offset ELSE 0 IN
       /\ Len(items) = IF q.limit < rest THEN q.limit ELSE rest
       /\ \A j \in 1..Len(items) : items[j] = index[p[q.offset + j]]

\* C22: the answer of list(container_id, limit, offset) is the page
\* offset..offset+limit-1 of the matching index entries sorted by created_at
\* descending, whatever the order in which the artifacts were stored.
C22_ListIsSortedPage ==
    [][\A t \in TaskIds :
          (tasks[t].m = "list" /\ tasks'[t] # tasks[t]) =>
             /\ resp'.code = 200
             /\ IsPage(resp'.body.items, indexFile.content, tasks[t].q)]_vars

\* artifacts stored with created_at 1, 3, 2: the page at offset 1 holds the
\* third and then the first
C22_Witness ==
    /\ resp.m = "list"
    /\ resp.code = 200
    /\ Len(indexFile.content) = 3
    /\ indexFile.content[1].created_at = 1
    /\ indexFile.content[2].created_at = 3
    /\ indexFile.content[3].created_at = 2
    /\ Len(resp.body.items) = 2
    /\ resp.body.items[1].id = 3
    /\ resp.body.items[2].id = 1

----------------------------------------------------------------------------
(* Post-store processing: claims about the status of a stored artifact *)

\* one move of the status: a step along received -> processing -> processed,
\* or from one of these to error
Forward(old, new) ==
    \/ old = "received" /\ new = "processing"
    \/ old = "processing" /\ new = "processed"
    \/ old \in {"received", "processing", "processed"} /\ new = "error"

StatusIn(index, artifact_id) == index[IndexPos(index, artifact_id)].status

\* C24: the status of a stored artifact, in its file and in its index entry,
\* only moves forward along received -> processing -> processed, or from one
\* of these to error: every rewrite of the file or of the index entry by
\* update_artifact_status is such a move from the status it found, what is
\* closed is what was prepared, and store_artifact only writes an artifact
\* that has no file and no entry yet.
C24_StatusMovesForward ==
    [][\A t \in TaskIds :
          LET tk == tasks[t] IN
          /\ (tk.m = "update" /\ tk.pc = "u_read" /\ tasks'[t].pc = "f_open") =>
                Forward(files[tk.id].content.status, tasks'[t].doc.status)
          /\ (tk.m = "update" /\ tk.pc = "i_load" /\ tasks'[t].pc = "i_open") =>
                Forward(StatusIn(indexFile.content, tk.id), StatusIn(tasks'[t].idx, tk.id))
          /\ (tk.m = "update" /\ tk.pc = "f_close" /\ tasks'[t].pc = "i_load") =>
                files'[tk.id] = Whole(tk.doc)
          /\ (tk.m = "update" /\ tk.pc = "i_close" /\ tasks'[t].pc # "i_close") =>
                indexFile' = Whole(tk.idx) \/ indexFile' = indexFile
          /\ (tk.m = "put" /\ tk.pc = "f_open" /\ tasks'[t].pc = "f_write") =>
                files[tk.id].kind = "absent"
          /\ (tk.m = "put" /\ tk.pc = "i_load" /\ tasks'[t].pc = "i_open") =>
                (indexFile.kind = "whole" => ~InIndex(indexFile.content, tk.id))]_vars

\* an artifact went through processing to error in its file and its entry
C24_Witness ==
    \E a \in ArtifactIds :
       /\ files[a].kind = "whole"
       /\ files[a].content.status = "error"
       /\ files[a].content.updated_at # -1
       /\ indexFile.kind = "whole"
       /\ InIndex(indexFile.content, a)
       /\ StatusIn(indexFile.content, a) = "error"

\* no request and no background task is working on the artifact
Settled(artifact_id) ==
    \A t \in TaskIds : tasks[t].op = "idle" \/ tasks[t].id # artifact_id

\* C25: every artifact that was stored and is not deleted reaches status
\* processed or error: once its background task has ended (after which
\* nothing changes a status any more), the status in its file is one of
\* the two.
C25_EndsProcessedOrError ==
    \A a \in ArtifactIds :
       (files[a].kind = "whole" /\ Settled(a)) =>
           files[a].content.status \in {"processed", "error"}

\* C26: a failure during post-store processing is contained: no exception
\* leaves the background task, and an artifact whose processing failed has
\* status error with the failure detail.
C26_FailureContained ==
    ~(resp.ep = "bg" /\ resp.code = 500)

----------------------------------------------------------------------------
(* Splitting by the Sender and reassembly by finalize: the byte strings    *)
(* of up to MaxBytes bytes over three byte values (all bits clear, all     *)
(* set, mixed), and the JSON text TextDocA, cut at every chunk size up to  *)
(* MaxChunkSize, the chunks uploaded in any order and any number of times  *)

MaxBytes == 4
MaxChunkSize == 4

ByteValues == {0, 195, 255}

ByteStrings ==
    UNION {[1..n -> ByteValues] : n \in 0..MaxBytes} \cup {TextDocA}

\* the pairs (S, C) that make at most MaxPieces chunks
MaxPieces == 4

RoundTripInputs ==
    {in \in ByteStrings \X (1..MaxChunkSize) :
        _calculate_chunks(Len(in[1]), in[2]) <= MaxPieces}

InitRoundTrip ==
    /\ apiKeyEnv = "k1"
    /\ jwtSecretEnv = "s1"
    /\ now = 0
    /\ tokens = {}
    /\ files = [i \in ArtifactIds |-> Absent]
    /\ indexFile = Whole(<<>>)
    /\ lock = 0
    /\ chunked_uploads = <<>>
    /\ nextId = 1
    /\ nextSid = 1
    /\ tasks = [t \in TaskIds |-> Idle]
    /\ resp = NoResponse
    /\ \E in \in RoundTripInputs :
          sender = [ArtifactSender("k1", 3, in[2]) EXCEPT !.data = in[1]]
    /\ events = <<>>
    /\ pipeline = NoPipeline

\* the requests of _send_chunked 228-279 as the server receives them, the
\* chunk requests in any order
NextRoundTrip ==
    \/ Login("k1")
    \/ \E b \in tokens :
          InitChunked(b, UploadMeta, _calculate_chunks(Len(sender.data), sender.chunk_size))
    \/ \E b \in tokens, s \in SessionIds :
          LET chunks == _split_into_chunks(sender.data, sender.chunk_size) IN
          \E i \in 1..Len(chunks) : UploadChunk(b, s, i - 1, chunks[i])
    \/ \E t \in TaskIds, b \in tokens, s \in SessionIds : Finalize(t, b, s)
    \/ \E t \in TaskIds : WriterStep(t)

SpecRoundTrip == InitRoundTrip /\ [][NextRoundTrip]_vars

\* every chunk number below total_chunks has arrived
AllArrived(session) ==
    /\ Len(session.received_chunks) = session.total_chunks
    /\ \A n \in 0..(session.total_chunks - 1) : ChunkPos(session.received_chunks, n) # 0

\* C27: a byte string S cut into C-byte slices, each base64-encoded, and
\* reassembled from the decoded slices in ascending chunk-number order is
\* S again, for every S and every C >= 1, in whatever order the chunks came.
C27_SplitReassembleRoundTrip ==
    \A s \in DOMAIN chunked_uploads :
       AllArrived(chunked_uploads[s]) =>
          reassemble(chunked_uploads[s]) = [kind |-> "ok", data |-> sender.data]

\* four bytes, not all ASCII, in two chunks of which the last came first
C27_Witness ==
    \E s \in DOMAIN chunked_uploads :
       LET session == chunked_uploads[s] IN
       /\ AllArrived(session)
       /\ session.total_chunks = 2
       /\ sender.chunk_size = 3
       /\ sender.data = <<255, 0, 195, 255>>
       /\ session.received_chunks[1].number = 1
       /\ reassemble(session).data = <<255, 0, 195, 255>>

----------------------------------------------------------------------------
(* df_v2.py: run(), from the collected document to the returned results *)

MaxKeys == 2

\* "x"
ValueX == <<120>>

\* the keys 2, 10, "a" and "b"
DocKeys == {IntKey(2), IntKey(10), StrKey(<<97>>), StrKey(<<98>>)}

\* the documents of up to MaxKeys items
Documents ==
    UNION {{d \in [1..n -> {Item(k, ValueX) : k \in DocKeys}] :
               \A i, j \in 1..n : i # j => d[i].key # d[j].key} :
           n \in 0..MaxKeys}

\* api_server.chunk_size of the runs: a document of two items does not fit
PipelineChunkSize == 16

\* how save_to_local ends: with the file and its summary written, or raising
\* OSError before the file is opened (makedirs, _check_storage_limits, open),
\* while it is written, or after it (getsize, _save_summary)
SaveOutcomes == {"ok", "raise_before", "raise_writing", "raise_after"}

\* run 238-241 mutated: the exception of the local save leaves run()
save_raised_propagates(p, e) ==
    [p EXCEPT !.pc = "done", !.local_save_error = e]

\* run 238-241: except Exception as e: results['local_save_error'] = str(e)
save_raised(p, e) ==
    [p EXCEPT !.pc = "saved", !.local_save_error = e]

\* run 234-241 with save_artifacts_local 187-197
SaveLocal(outcome) ==
    LET p == pipeline
        serialized == serialize_artifacts(p.artifacts)
    IN
    /\ p.pc = "collected"
    /\ pipeline' =
          IF ~p.save_local THEN [p EXCEPT !.pc = "saved"]
          ELSE IF serialized.kind = "raise" THEN save_raised(p, "TypeError")
          ELSE IF outcome = "ok"
          THEN [p EXCEPT !.pc = "saved", !.local_path = TRUE,
                         !.file = Whole(file_written(p.compression, serialized))]
          ELSE [save_raised(p, "OSError") EXCEPT
                   !.file = IF outcome = "raise_before" THEN Absent
                            ELSE IF outcome = "raise_writing" THEN HalfWritten
                            ELSE Whole(file_written(p.compression, serialized))]
    /\ UNCHANGED <<sender, events>>
    /\ UNCHANGED serverVars

\* check_server_health 320-340
Healthy(ans) == ans.exc = "" /\ ans.status_code = 200

\* run 244-259 with send_artifacts_to_api 199-215, to the first request of
\* send_artifacts
SendToApi(ans) ==
    LET p == pipeline
        serialized == serialize_artifacts(p.artifacts)
    IN
    /\ p.pc = "saved"
    /\ IF ~p.send_api
       THEN /\ pipeline' = [p EXCEPT !.pc = "done"]
            /\ UNCHANGED sender
       ELSE IF ~Healthy(ans)
       THEN /\ pipeline' = [p EXCEPT !.pc = "done", !.health = ans,
                                     !.api_result = Result(FALSE, "API server is not healthy", 0)]
            /\ UNCHANGED sender
       ELSE IF serialized.kind = "raise"
       THEN /\ pipeline' = [p EXCEPT !.pc = "done", !.health = ans,
                                     !.api_send_error = "TypeError"]
            /\ UNCHANGED sender
       ELSE /\ sender.pc = "idle"
            /\ pipeline' = [p EXCEPT !.pc = "sending", !.health = ans,
                                     !.serialized = serialized]
            /\ sender' = send_artifacts(sender, EnvelopeBytes(serialized))
    /\ UNCHANGED events
    /\ UNCHANGED serverVars

\* run 249-254: send_artifacts has returned
ApiResult ==
    /\ pipeline.pc = "sending"
    /\ sender.pc = "done"
    /\ pipeline' = [pipeline EXCEPT !.pc = "done", !.api_result = sender.result]
    /\ UNCHANGED <<sender, events>>
    /\ UNCHANGED serverVars

\* ArtifactSerializer.load_from_local(results['local_path'])
LoadFromLocal ==
    /\ pipeline.pc = "done"
    /\ pipeline.local_path
    /\ pipeline.loaded = NoLoad
    /\ pipeline' = [pipeline EXCEPT !.loaded = load_from_local(pipeline.file.content)]
    /\ UNCHANGED <<sender, events>>
    /\ UNCHANGED serverVars

InitPipeline ==
    /\ apiKeyEnv = "k1"
    /\ jwtSecretEnv = "s1"
    /\ now = 0
    /\ tokens = {}
    /\ files = [i \in ArtifactIds |-> Absent]
    /\ indexFile = Whole(<<>>)
    /\ lock = 0
    /\ chunked_uploads = <<>>
    /\ nextId = 1
    /\ nextSid = 1
    /\ tasks = [t \in TaskIds |-> Idle]
    /\ resp = NoResponse
    /\ sender = ArtifactSender("k1", 2, PipelineChunkSize)
    /\ events = <<>>
    /\ \E d \in Documents, save_local \in BOOLEAN, send_api \in BOOLEAN,
          compression \in BOOLEAN :
          pipeline = DockerForensicsV2(d, save_local, send_api, compression)

NextPipeline ==
    \/ \E outcome \in SaveOutcomes : SaveLocal(outcome)
    \/ \E ans \in Answers : SendToApi(ans)
    \/ \E ans \in LoginAnswers : SenderLogin(ans)
    \/ \E ans \in Answers : DirectPost(ans)
    \/ \E ans \in LoginAnswers : ReloginDirect(ans)
    \/ \E ans \in Answers : ChunkedInit(ans)
    \/ \E ans \in LoginAnswers : ReloginChunked(ans)
    \/ \E ans \in Answers : ChunkPost(ans)
    \/ \E ans \in Answers : FinalizePost(ans)
    \/ ApiResult
    \/ LoadFromLocal

SpecPipeline == InitPipeline /\ [][NextPipeline]_vars

\* C28: for every artifact document D, loading the file written by
\* save_to_local(serialize_artifacts(D)) recomputes, over the key-sorted
\* encoding of the loaded envelope without its checksum, the checksum stored
\* at serialization time.
C28_ChecksumRoundTrip ==
    pipeline.loaded # NoLoad =>
        pipeline.loaded.calculated_checksum = pipeline.loaded.stored_checksum

\* the run is over, sending was requested and save_to_local raised OSError
SaveFailedSendRequested ==
    /\ pipeline.pc = "done"
    /\ pipeline.send_api
    /\ pipeline.local_save_error = "OSError"

\* send_artifacts was called with the serialized in-memory document
Transmitted ==
    /\ pipeline.serialized = serialize_artifacts(pipeline.artifacts)
    /\ sender.pc = "done"
    /\ sender.data = EnvelopeBytes(pipeline.serialized)
    /\ pipeline.api_result = sender.result

\* C29 as stated: after a filesystem failure of the local save, when sending
\* is requested, the pipeline serializes the in-memory document and attempts
\* to transmit it.
C29_SendDespiteSaveFailure ==
    SaveFailedSendRequested => Transmitted

\* C29 amended: after a filesystem failure of the local save, when sending
\* is requested, the pipeline goes on to the health check, and serializes
\* the in-memory document and calls send_artifacts with it exactly when the
\* server answered the health check with 200; otherwise the result is 'API
\* server is not healthy' and nothing is serialized or sent.
C29_SendAfterFailedSaveIfHealthy ==
    SaveFailedSendRequested =>
        /\ pipeline.health # NoAnswer
        /\ pipeline.api_send_error = ""
        /\ IF pipeline.health.exc = "" /\ pipeline.health.status_code = 200
           THEN Transmitted
           ELSE /\ pipeline.serialized = NoEnvelope
                /\ events = <<>>
                /\ sender.pc = "idle"
                /\ pipeline.api_result = Result(FALSE, "API server is not healthy", 0)

\* the save raised while writing, and the document went out and was accepted
C29_Witness ==
    /\ SaveFailedSendRequested
    /\ pipeline.file = HalfWritten
    /\ Transmitted
    /\ pipeline.api_result.success
    /\ Len(pipeline.artifacts) = 2

----------------------------------------------------------------------------
(* Two upload sessions side by side, direct submits, and store_artifact    *)
(* failing under a request.                                                *)

\* store_artifact called by create_artifact (182) or finalize (358): an
\* OSError from aiofiles at the await the task is suspended at.  `async with
\* self.lock` releases the lock, the files stay as the failed call left
\* them, the handler's except branch answers 500.
PutError(t) ==
    /\ tasks[t].op \in {"create", "finalize"}
    /\ tasks[t].pc \in {"f_open", "f_write", "f_close",
                        "i_load", "i_open", "i_write", "i_close"}
    /\ lock' = 0
    /\ Finish(t, "raise", NoBody)
    /\ UNCHANGED <<pipeline, sender, events, apiKeyEnv, jwtSecretEnv, now, tokens, files, indexFile,
                   nextId, nextSid>>

\* session ids are uuid4 strings; numbered here from 0 so that two sessions
\* are open side by side
OpenSessionIds == 0..MaxSessions
WholeA == b64encode(TextDocA)
SessionPayloads == {WholeA, BadBase64}
SessionChunkNumbers == {0}

\* the tokens login (117-124) issued
LoginTokens == {b \in tokens : b.user_id = "forensics_user"}

InitSessions ==
    /\ apiKeyEnv = "k1"
    /\ jwtSecretEnv = "s1"
    /\ now = 0
    /\ tokens = {}
    /\ files = [i \in ArtifactIds |-> Absent]
    /\ indexFile = Whole(<<>>)
    /\ lock = 0
    /\ chunked_uploads = <<>>
    /\ nextId = 1
    /\ nextSid = 0
    /\ tasks = [t \in TaskIds |-> Idle]
    /\ resp = NoResponse
    /\ sender = ArtifactSender("", 3, 10 * 1024 * 1024)
    /\ events = <<>>
    /\ pipeline = NoPipeline

NextSessions ==
    \/ Login("k1")
    \/ IssueToken("mallory")
    \/ \E b \in LoginTokens : InitChunked(b, UploadMeta, 1)
    \/ \E b \in tokens, s \in OpenSessionIds, n \in SessionChunkNumbers,
          d \in SessionPayloads : UploadChunk(b, s, n, d)
    \/ \E t \in TaskIds, b \in tokens, s \in OpenSessionIds : Finalize(t, b, s)
    \/ \E t \in TaskIds : WriterStep(t)
    \/ \E t \in TaskIds : PutError(t)

SpecSessions == InitSessions /\ [][NextSessions]_vars

\* C31: a session leaves the session table only in the step in which a
\* finalize of that session returns from a store_artifact that stored its
\* artifact and answers 200; in every other step each session stays, and
\* stays as it was unless the step is an accepted chunk upload to that very
\* session, which changes its received chunks only.
C31_SessionRemovedOnlyByStoredFinalize ==
    [][\A s \in DOMAIN chunked_uploads :
          /\ s \notin DOMAIN chunked_uploads' =>
                \E t \in TaskIds :
                   /\ tasks[t].op = "finalize" /\ tasks[t].sid = s
                   /\ tasks[t].pc = "i_close"
                   /\ resp'.ep = "finalize" /\ resp'.code = 200 /\ resp'.sid = s
                   /\ files'[tasks[t].id] = Whole(tasks[t].doc)
                   /\ indexFile'.kind = "whole"
                   /\ InIndex(indexFile'.content, tasks[t].id)
          /\ (s \in DOMAIN chunked_uploads' /\ chunked_uploads'[s] # chunked_uploads[s]) =>
                /\ resp'.ep = "chunk" /\ resp'.code = 200 /\ resp'.sid = s
                /\ chunked_uploads'[s] =
                      [chunked_uploads[s] EXCEPT !.received_chunks =
                          chunked_uploads'[s].received_chunks]]_vars

\* a finalize of session 0 failed in store_artifact while session 1 holds a
\* chunk: both sessions are still there
C31_Witness ==
    /\ resp.ep = "finalize" /\ resp.code = 500 /\ resp.m = "put" /\ resp.sid = 0
    /\ DOMAIN chunked_uploads = {0, 1}
    /\ Len(chunked_uploads[0].received_chunks) = 1
    /\ Len(chunked_uploads[1].received_chunks) = 1

\* C32: an accepted chunk upload (number, payload) leaves the session holding
\* payload at number and every other number as it was; when the session
\* already held that number the count of received chunks is unchanged, and
\* when it already held that very payload there the session table is
\* unchanged; sending the same chunk once more changes nothing.
C32_PutChunkIdempotent ==
    [][(resp'.ep = "chunk" /\ resp'.code = 200) =>
          LET s == resp'.sid
              n == resp'.body.number
              d == resp'.body.data
              old == chunked_uploads[s].received_chunks
              new == chunked_uploads'[s].received_chunks
          IN
          /\ ChunkPos(new, n) # 0
          /\ new[ChunkPos(new, n)].data = d
          /\ \A i \in 1..Len(old) : old[i].number # n => new[i] = old[i]
          /\ Cardinality({i \in 1..Len(new) : new[i].number = n}) = 1
          /\ ChunkPos(old, n) # 0 =>
                /\ Len(new) = Len(old)
                /\ old[ChunkPos(old, n)].data = d => chunked_uploads' = chunked_uploads
          /\ ChunkPos(old, n) = 0 => Len(new) = Len(old) + 1
          /\ ChunkSet(new, n, d) = new]_vars

\* chunk 0 arrived before chunk 1 and has just been sent again with another
\* payload: two chunks are held
C32_Witness ==
    /\ resp.ep = "chunk" /\ resp.code = 200
    /\ resp.body.number = 0 /\ resp.body.data = PieceA1
    /\ resp.sid \in DOMAIN chunked_uploads
    /\ chunked_uploads[resp.sid].received_chunks =
          <<[number |-> 0, data |-> PieceA1], [number |-> 1, data |-> PieceA0]>>

\* the artifacts a finalize has stored
StoredChunked == {a \in ArtifactIds : /\ files[a].kind = "whole"
                                      /\ files[a].content.upload_method = "chunked"}

\* C36: an upload session yields at most one stored artifact, also when
\* finalize requests on it overlap (one session is opened in SpecUpload).
C36_AtMostOneArtifactPerSession ==
    Cardinality(StoredChunked) <= 1

\* direct and chunked submits side by side, store_artifact failing
NextSubmit ==
    \/ NextSessions
    \/ \E t \in TaskIds, b \in LoginTokens : CreateArtifact(t, b, UploadMeta, "{}")

SpecSubmit == InitSessions /\ [][NextSubmit]_vars

\* store_artifact has returned for the artifact of task t: its file and its
\* index entry are written
PutDone(t) ==
    /\ tasks[t].pc = "i_close"
    /\ files'[tasks[t].id] = Whole(tasks[t].doc)
    /\ indexFile'.kind = "whole"
    /\ InIndex(indexFile'.content, tasks[t].id)

\* C33: a background task is scheduled only in the step in which put returns
\* for its artifact under a submit; the submit whose put returned is answered
\* 200 with status received and has its background task scheduled; the
\* submit whose put raised is answered with an error and has none.
C33_ProcessingScheduledAfterPut ==
    [][\A t \in TaskIds :
          /\ (tasks[t].op # "bg" /\ tasks'[t].op = "bg") =>
                /\ tasks[t].op \in {"create", "finalize"}
                /\ tasks'[t].id = tasks[t].id
                /\ PutDone(t)
          /\ (tasks[t].op \in {"create", "finalize"} /\ tasks'[t].op # tasks[t].op) =>
                IF PutDone(t)
                THEN /\ tasks'[t].op = "bg"
                     /\ resp'.code = 200 /\ resp'.id = tasks[t].id
                     /\ resp'.body = [kind |-> "status", status |-> "received"]
                ELSE /\ tasks'[t].op = "idle"
                     /\ resp'.code = 500 /\ resp'.id = tasks[t].id]_vars

\* the fields of an artifact that update_artifact_status may change, blanked
SameButStatus(artifact) ==
    [artifact EXCEPT !.status = "", !.updated_at = 0, !.error = ""]

\* index b is index a with at most the status of artifact_id's entry changed
SameButEntryStatus(a, b, artifact_id) ==
    /\ Len(a) = Len(b)
    /\ \A k \in 1..Len(a) :
          IF a[k].id = artifact_id THEN [a[k] EXCEPT !.status = ""] = [b[k] EXCEPT !.status = ""]
          ELSE a[k] = b[k]

\* task t is inside update_artifact_status(id, ...)
Updating(t) == tasks[t].m = "update" /\ tasks[t].pc # "lock"

\* C34: from the moment update_artifact_status(id, status, error) holds the
\* lock to its return, no other artifact file changes; the artifact it
\* writes back is the one it read with status, updated_at and error set
\* and nothing else changed; the index it writes back is the one it loaded
\* with the status of id's entry set and nothing else changed; with no
\* file and no index entry for id it returns with the files as they were.
C34_UpdateStatusFrame ==
    [][\A t \in TaskIds :
          /\ (tasks[t].m = "update" /\ tasks[t].pc = "lock" /\ tasks'[t] # tasks[t]) =>
                /\ lock' = t
                /\ files' = files /\ indexFile' = indexFile
          /\ (Updating(t) /\ tasks'[t] # tasks[t]) =>
                LET id == tasks[t].id
                    pc == tasks[t].pc
                IN
                /\ lock = t
                /\ \A a \in ArtifactIds \ {id} : files'[a] = files[a]
                /\ pc = "u_read" =>
                      /\ files' = files /\ indexFile' = indexFile
                      /\ files[id].kind = "whole"
                      /\ SameButStatus(tasks'[t].doc) = SameButStatus(files[id].content)
                      /\ tasks'[t].doc.status = tasks[t].status
                      /\ tasks'[t].doc.updated_at = now
                      /\ tasks'[t].doc.error =
                            (IF tasks[t].err # "" THEN tasks[t].err ELSE files[id].content.error)
                /\ pc \in {"f_open", "f_write", "f_close"} =>
                      /\ indexFile' = indexFile
                      /\ tasks'[t].doc = tasks[t].doc
                      /\ pc = "f_close" => files'[id] = Whole(tasks[t].doc)
                /\ pc = "i_load" =>
                      /\ files' = files /\ indexFile' = indexFile
                      /\ indexFile.kind = "whole"
                      /\ IF InIndex(indexFile.content, id)
                         THEN /\ Updating(t)'
                              /\ SameButEntryStatus(indexFile.content, tasks'[t].idx, id)
                              /\ tasks'[t].idx[IndexPos(tasks'[t].idx, id)].status = tasks[t].status
                         ELSE resp'.m = "update" /\ resp'.code = 200
                /\ pc \in {"i_open", "i_write", "i_close"} =>
                      /\ files' = files
                      /\ tasks'[t].idx = tasks[t].idx \/ pc = "i_close"
                      /\ pc = "i_close" => /\ indexFile' = Whole(tasks[t].idx)
                                           /\ resp'.m = "update" /\ resp'.code = 200]_vars

\* update_artifact_status(id, "error", "str(e)") has returned: id carries
\* status error in its file and in the index, the other artifact is stored
\* with status received
C34_Witness ==
    /\ resp.m = "update" /\ resp.code = 200
    /\ files[resp.id].kind = "whole"
    /\ files[resp.id].content.status = "error"
    /\ files[resp.id].content.error = "str(e)"
    /\ files[resp.id].content.artifacts = "{}"
    /\ indexFile.kind = "whole" /\ Len(indexFile.content) = 2
    /\ \A k \in 1..2 :
          indexFile.content[k].status =
             (IF indexFile.content[k].id = resp.id THEN "error" ELSE "received")
    /\ \A a \in ArtifactIds \ {resp.id} :
          files[a].kind = "whole" /\ files[a].content.status = "received"

\* C35: every chunk number a session holds lies in 0..total_chunks-1, and a
\* finalize that got past the count check found every chunk
\* 0..total_chunks-1 in the session.  (With the numbers in range and the
\* total positive, the count of received chunks cannot exceed the total.)
C35_ChunkNumbersInRange ==
    /\ \A s \in DOMAIN chunked_uploads :
          \A i \in 1..Len(chunked_uploads[s].received_chunks) :
             chunked_uploads[s].received_chunks[i].number
                \in 0..(chunked_uploads[s].total_chunks - 1)
    /\ (/\ resp.ep = "finalize" /\ resp.body.kind = "session"
        /\ resp.code \notin {403, 400})
          => \A n \in 0..(resp.body.session.total_chunks - 1) :
                ChunkPos(resp.body.session.received_chunks, n) # 0

\* neither the artifact file nor (in an index file that can be read) the
\* index entry of artifact_id exists
Gone(artifact_id) ==
    /\ files[artifact_id] = Absent
    /\ indexFile.kind = "whole" => ~InIndex(indexFile.content, artifact_id)

\* C37: from the moment delete(id) has answered true, the artifact file and
\* the index entry of id never exist again, whatever the background task of
\* id still does.
C37_DeletedStaysDeleted ==
    \A a \in ArtifactIds :
       []((resp.m = "delete" /\ resp.code = 200 /\ resp.id = a) => []Gone(a))

\* artifact 1 was stored and deleted, and the update_artifact_status of its
\* background task, finding no file, is about to load the index
C37_Witness ==
    /\ Gone(1) /\ indexFile.kind = "whole"
    /\ \E t \in TaskIds :
          /\ tasks[t].op = "bg" /\ tasks[t].id = 1
          /\ tasks[t].pc = "i_load" /\ lock = t

----------------------------------------------------------------------------
(* Logins at different times, a token of another subject, and one upload   *)
(* session.                                                                *)

NextOwners ==
    \/ Login("k1")
    \/ Tick
    \/ IssueToken("mallory")
    \/ \E b \in tokens : InitChunked(b, UploadMeta, 1)
    \/ \E b \in tokens, s \in SessionIds : UploadChunk(b, s, 0, WholeA)
    \/ \E t \in TaskIds, b \in tokens, s \in SessionIds : Finalize(t, b, s)
    \/ \E t \in TaskIds : WriterStep(t)

SpecOwners == Init /\ [][NextOwners]_vars

\* the request just answered came with a token of the subject login issues
ByLoginToken ==
    resp.payload.kind = "payload" /\ resp.payload.scope = LoginScope

\* C39: every token login issues carries the subject forensics_user, every
\* session opened with such a token is owned by that subject, and no chunk
\* or finalize request made with such a token on such a session is
\* answered 403.
C39_LoginTokensShareSessions ==
    /\ (resp.ep = "login" /\ resp.code = 200) =>
          resp.body.token.user_id = "forensics_user"
    /\ (resp.ep = "init" /\ resp.code = 200 /\ ByLoginToken) =>
          chunked_uploads[resp.sid].user_id = "forensics_user"
    /\ (/\ resp.ep \in {"chunk", "finalize"} /\ ByLoginToken
        /\ resp.sid \in DOMAIN chunked_uploads
        /\ chunked_uploads[resp.sid].user_id = "forensics_user")
          => resp.code # 403

\* a chunk sent with the token of a second login, 12 hours after the first,
\* was accepted by the session the first login's token opened
C39_Witness ==
    /\ resp.ep = "chunk" /\ resp.code = 200
    /\ resp.payload.exp = 12 + JWT_EXPIRATION_HOURS
    /\ chunked_uploads[resp.sid].created_at = 0
    /\ chunked_uploads[resp.sid].user_id = "forensics_user"
    /\ now = 12

----------------------------------------------------------------------------
(* The Sender and the Ingest Service together: one send_artifacts call,    *)
(* each request handled by the server's own handler.  A request of the     *)
(* Sender is two steps: the server takes it (the handler's action), and    *)
(* the Sender gets the answer (the Sender's action); requests.post blocks  *)
(* in between, or gives up with Timeout / ConnectionError while the server *)
(* goes on.                                                                *)

\* serialized_data['metadata'] of the envelope whose JSON text is data
\* (artifact_serializer.py 57-84); the texts of the model spell the
\* artifacts member only
envelope_metadata(data) ==
    LET c == IF data = TextDocA THEN "abc123" ELSE "def456"
        meta == CHOOSE m \in Metas : m.container_id = c
    IN  [version |-> "2.0", container_id |-> meta.container_id,
         collection_timestamp |-> meta.collection_timestamp,
         collection_host |-> meta.collection_host, collection_user |-> "root",
         artifact_count |-> meta.artifact_count, errors |-> <<>>,
         checksum |-> meta.checksum]

\* send_artifacts mutated: the checksum is left out of the init metadata
request_metadata_no_checksum(serialized_metadata) ==
    [container_id |-> serialized_metadata.container_id,
     collection_timestamp |-> serialized_metadata.collection_timestamp,
     collection_host |-> serialized_metadata.collection_host,
     artifact_count |-> serialized_metadata.artifact_count,
     checksum |-> "",
     local_file_path |-> NoValue]

\* send_artifacts 124-131: the metadata sent with the chunked init
request_metadata(serialized_metadata) ==
    [container_id |-> serialized_metadata.container_id,
     collection_timestamp |-> serialized_metadata.collection_timestamp,
     collection_host |-> serialized_metadata.collection_host,
     artifact_count |-> serialized_metadata.artifact_count,
     checksum |-> serialized_metadata.checksum,
     local_file_path |-> NoValue]

\* models.py 29-41: ArtifactMetadata as create_artifact gets it from the
\* request body; `version` is no field of it
ArtifactMetadata(body_metadata) ==
    [container_id |-> body_metadata.container_id,
     collection_timestamp |-> body_metadata.collection_timestamp,
     collection_host |-> body_metadata.collection_host,
     collection_user |-> body_metadata.collection_user,
     artifact_count |-> body_metadata.artifact_count,
     checksum |-> body_metadata.checksum,
     errors |-> body_metadata.errors]

\* the direct POSTs the Sender has got an answer (or an exception) for
Posted == Cardinality({k \in 1..Len(events) : events[k].req = "artifacts"})

\* the session the Sender's init opened
SenderSession == nextSid - 1

\* POST /auth/login reaches the server
TransmitLoginArrives ==
    /\ sender.pc = "login" /\ tokens = {}
    /\ Login(sender.api_key)

\* ... and is answered with the token
TransmitLoginAnswered ==
    /\ tokens # {}
    /\ SenderLogin([Status(200) EXCEPT !.access_token = TRUE])

\* _send_direct 153-157: POST /api/v1/artifacts with json=data reaches
\* create_artifact
DirectArrives(t) ==
    /\ sender.pc = "direct" /\ nextId - 1 = Posted
    /\ \E b \in tokens :
          CreateArtifact(t, b, ArtifactMetadata(envelope_metadata(sender.data)),
                         json_loads(sender.data).artifacts)

\* the answers the POST in progress can end with: 200 once create_artifact
\* has returned, Timeout or ConnectionError at any moment
DirectAnswers ==
    {Raised("Timeout"), Raised("ConnectionError")}
    \cup (IF \A t \in TaskIds : tasks[t].op # "create" THEN {Status(200)} ELSE {})

DirectAnswered ==
    /\ nextId - 1 > Posted
    /\ \E ans \in DirectAnswers : DirectPost(ans)

\* _send_chunked 228-237: the init request reaches init_chunked_upload
ChunkedInitArrives ==
    /\ sender.pc = "chunked_init" /\ nextSid = 1
    /\ \E b \in tokens :
          InitChunked(b, request_metadata(envelope_metadata(sender.data)),
                      _calculate_chunks(Len(sender.data), sender.chunk_size))

ChunkedInitAnswered ==
    /\ nextSid > 1
    /\ ChunkedInit(Status(200))

\* _send_chunked 257-267: chunk i reaches upload_chunk
ChunkArrives ==
    /\ sender.pc = "chunk"
    /\ ChunkPos(chunked_uploads[SenderSession].received_chunks, sender.i) = 0
    /\ \E b \in tokens :
          UploadChunk(b, SenderSession, sender.i,
                      _split_into_chunks(sender.data, sender.chunk_size)[sender.i + 1])

ChunkAnswered ==
    /\ sender.pc = "chunk"
    /\ ChunkPos(chunked_uploads[SenderSession].received_chunks, sender.i) # 0
    /\ ChunkPost(Status(200))

\* _send_chunked 277-282: the finalize request reaches
\* finalize_chunked_upload
FinalizeArrives(t) ==
    /\ sender.pc = "finalize" /\ nextId = 1
    /\ \E b \in tokens : Finalize(t, b, SenderSession)

FinalizeAnswered ==
    /\ nextId > 1
    /\ \A t \in TaskIds : tasks[t].op # "finalize"
    /\ FinalizePost(Status(200))

TransmitEnvelopes == {TextDocA, TextDocC}
TransmitChunkSizes == {8, 32}

InitTransmit ==
    /\ apiKeyEnv = "k1"
    /\ jwtSecretEnv = "s1"
    /\ now = 0
    /\ tokens = {}
    /\ files = [i \in ArtifactIds |-> Absent]
    /\ indexFile = Whole(<<>>)
    /\ lock = 0
    /\ chunked_uploads = <<>>
    /\ nextId = 1
    /\ nextSid = 1
    /\ tasks = [t \in TaskIds |-> Idle]
    /\ resp = NoResponse
    /\ \E c \in TransmitChunkSizes : sender = ArtifactSender("k1", 2, c)
    /\ events = <<>>
    /\ pipeline = NoPipeline

NextTransmit ==
    \/ \E data \in TransmitEnvelopes : SendArtifacts(data)
    \/ TransmitLoginArrives
    \/ TransmitLoginAnswered
    \/ \E t \in TaskIds : DirectArrives(t)
    \/ DirectAnswered
    \/ ChunkedInitArrives
    \/ ChunkedInitAnswered
    \/ ChunkArrives
    \/ ChunkAnswered
    \/ \E t \in TaskIds : FinalizeArrives(t)
    \/ FinalizeAnswered
    \/ \E t \in TaskIds : WriterStep(t)

SpecTransmit == InitTransmit /\ [][NextTransmit]_vars

\* C38: one send_artifacts call leaves at most one artifact stored.
C38_OneArtifactPerTransmit ==
    Cardinality({a \in ArtifactIds : files[a].kind = "whole"}) <= 1

\* what an artifact document says about the envelope it was made from
EnvelopeFields(artifact) ==
    [container_id |-> artifact.container_id,
     collection_timestamp |-> artifact.collection_timestamp,
     collection_host |-> artifact.collection_host,
     artifact_count |-> artifact.artifact_count,
     checksum |-> artifact.checksum,
     artifacts |-> artifact.artifacts,
     created_by |-> artifact.created_by]

\* the same, read off the envelope the Sender was given
SentFields ==
    LET metadata == envelope_metadata(sender.data) IN
    [container_id |-> metadata.container_id,
     collection_timestamp |-> metadata.collection_timestamp,
     collection_host |-> metadata.collection_host,
     artifact_count |-> metadata.artifact_count,
     checksum |-> metadata.checksum,
     artifacts |-> json_loads(sender.data).artifacts,
     created_by |-> "forensics_user"]

\* C40: whether the envelope went in one POST or in chunks, the artifact
\* document handed to the Store has status received and the container id,
\* collection timestamp, host, artifact count, checksum, artifact document
\* and creator of the envelope, and so has every stored artifact; the two
\* ways differ in the upload_method tag (and in id and created_at, which the
\* server draws per request).
C40_DirectAndChunkedStoreTheSame ==
    /\ \A t \in TaskIds :
          tasks[t].op \in {"create", "finalize"} =>
             /\ EnvelopeFields(tasks[t].doc) = SentFields
             /\ tasks[t].doc.status = "received"
             /\ tasks[t].doc.upload_method =
                   (IF tasks[t].op = "finalize" THEN "chunked" ELSE "")
    /\ \A a \in ArtifactIds :
          files[a].kind = "whole" =>
             /\ EnvelopeFields(files[a].content) = SentFields
             /\ files[a].content.id = a
             /\ files[a].content.upload_method =
                   (IF NeedsChunking(Len(sender.data), sender.chunk_size)
                    THEN "chunked" ELSE "")

\* the envelope {"artifacts":{"a":1}} went in three chunks of 8 bytes, the
\* Sender returned success and the artifact is stored
C40_Witness ==
    /\ sender.pc = "done" /\ sender.result.success
    /\ sender.data = TextDocC /\ sender.chunk_size = 8
    /\ files[1].kind = "whole"
    /\ files[1].content.upload_method = "chunked"
    /\ files[1].content.artifacts = "{a:1}"
    /\ files[1].content.checksum = "Y"

====
